---- MODULE Spec2Model ----
(***************************************************************************)
(* Analytics worker: ingestion gateway, evaluation work queue and the      *)
(* batch classifier (src/src/handlers/ingest.ts, evaluation.ts).           *)
(*                                                                         *)
(* Conventions.  A JavaScript object is a record; an optional field that   *)
(* is undefined is a field the record does not have.  Confidence values    *)
(* (0..1) are integers in hundredths (0.5 is 50), latencies are integer    *)
(* milliseconds.  A SQL NULL is, like undefined, an absent field.  A SQL   *)
(* table is a bag of rows, so that two rows with the same key are          *)
(* distinguishable from one; the statements that write a table enforce its *)
(* constraints.                                                            *)
(***************************************************************************)
EXTENDS Integers, Sequences, FiniteSets, Bags, TLC

VARIABLES
    env,                \* AnalyticsEnv: EVAL_BATCH_SIZE, GEMINI_API_KEY
    voice_queries,      \* table voice_queries
    voice_outcomes,     \* table voice_outcomes
    voice_evaluations,  \* table voice_evaluations
    EVAL_QUEUE,         \* KV namespace: key name -> stored value
    pendingPuts,        \* EVAL_QUEUE.put calls handed to ctx.waitUntil, not yet settled
    run,                \* evaluateBatch invocations: position and locals of each
    faultsInjected,     \* number of store operations the environment has failed so far
    responses,          \* the responses handleIngest has returned, with their requests
    tasks,              \* the other tasks handed to ctx.waitUntil, not yet settled
    llm_calls,          \* table llm_calls
    voice_stats_hourly, \* table voice_stats_hourly
    llm_usage_hourly,   \* table llm_usage_hourly
    customer_insights   \* table customer_insights

\* What the gateway writes besides voice_queries, voice_outcomes and the queue.
ingestVars == <<responses, tasks, llm_calls, voice_stats_hourly, llm_usage_hourly,
                customer_insights>>

vars == <<env, voice_queries, voice_outcomes, voice_evaluations, EVAL_QUEUE,
          pendingPuts, run, faultsInjected, ingestVars>>

-----------------------------------------------------------------------------
(* Bounds *)

MaxQueries == 2         \* query ids 1..MaxQueries, in KV list (lexicographic) order
MaxFaults == 1          \* store operations the environment may fail in one behaviour

MaxRequests == 3        \* requests the gateway answers in one behaviour

QueryIds == 1..MaxQueries
CallIds == 1..MaxRequests
Runs == {1, 2}          \* two scheduled invocations may overlap

-----------------------------------------------------------------------------
(* JavaScript values *)

null == [null |-> TRUE]

Has(obj, field) == field \in DOMAIN obj

\* Sequence of the elements of a finite set of integers, ascending.
RECURSIVE SortedSeq(_)
SortedSeq(S) ==
    IF S = {} THEN <<>>
    ELSE LET m == CHOOSE x \in S : \A y \in S : x <= y
         IN  <<m>> \o SortedSeq(S \ {m})

Range(s) == {s[i] : i \in DOMAIN s}

Min(a, b) == IF a <= b THEN a ELSE b
Max(a, b) == IF a >= b THEN a ELSE b

\* A JavaScript value used as a condition: undefined, null, 0 and "" are falsy.
TruthyNumber(obj, field) == Has(obj, field) /\ obj[field] # 0
TruthyString(obj, field) == Has(obj, field) /\ obj[field] # ""

-----------------------------------------------------------------------------
(* evaluation.ts: the three tiers *)

Labels == {"GOOD", "REVIEW", "BAD"}

Verdict(l, r, c) == [label |-> l, reason |-> r, confidenceScore |-> c]

\* Length in UTF-16 code units of a query text.
Length(text) == Len(text)

\* The length rule tried before the very-low-confidence rule.
evaluateWithHeuristics_ShortFirst(queryData) ==
    LET hasConf == Has(queryData, "transcriptionConf")
        conf    == queryData.transcriptionConf
    IN  IF Length(queryData.queryText) < 3
            THEN Verdict("BAD", "query_too_short", 90)
        ELSE IF hasConf /\ conf < 50
            THEN Verdict("BAD", "very_low_transcription_confidence", 90)
        ELSE IF hasConf /\ conf < 80
            THEN Verdict("REVIEW", "low_transcription_confidence", 70)
        ELSE IF queryData.fastPath /\ TruthyNumber(queryData, "transcriptionConf") /\ conf > 95
            THEN Verdict("GOOD", "high_confidence_fast_path", 80)
        ELSE null

\* Thresholds compared with <= and >= instead of < and >.
evaluateWithHeuristics_Inclusive(queryData) ==
    LET hasConf == Has(queryData, "transcriptionConf")
        conf    == queryData.transcriptionConf
    IN  IF hasConf /\ conf <= 50
            THEN Verdict("BAD", "very_low_transcription_confidence", 90)
        ELSE IF Length(queryData.queryText) <= 3
            THEN Verdict("BAD", "query_too_short", 90)
        ELSE IF hasConf /\ conf <= 80
            THEN Verdict("REVIEW", "low_transcription_confidence", 70)
        ELSE IF queryData.fastPath /\ TruthyNumber(queryData, "transcriptionConf") /\ conf >= 95
            THEN Verdict("GOOD", "high_confidence_fast_path", 80)
        ELSE null

\* No rule on the length of the query text.
evaluateWithHeuristics_NoShortRule(queryData) ==
    LET hasConf == Has(queryData, "transcriptionConf")
        conf    == queryData.transcriptionConf
    IN  IF hasConf /\ conf < 50
            THEN Verdict("BAD", "very_low_transcription_confidence", 90)
        ELSE IF hasConf /\ conf < 80
            THEN Verdict("REVIEW", "low_transcription_confidence", 70)
        ELSE IF queryData.fastPath /\ TruthyNumber(queryData, "transcriptionConf") /\ conf > 95
            THEN Verdict("GOOD", "high_confidence_fast_path", 80)
        ELSE null

evaluateWithHeuristics(queryData) ==
    LET hasConf == Has(queryData, "transcriptionConf")
        conf    == queryData.transcriptionConf
    IN  IF hasConf /\ conf < 50
            THEN Verdict("BAD", "very_low_transcription_confidence", 90)
        ELSE IF Length(queryData.queryText) < 3
            THEN Verdict("BAD", "query_too_short", 90)
        ELSE IF hasConf /\ conf < 80
            THEN Verdict("REVIEW", "low_transcription_confidence", 70)
        ELSE IF queryData.fastPath /\ TruthyNumber(queryData, "transcriptionConf") /\ conf > 95
            THEN Verdict("GOOD", "high_confidence_fast_path", 80)
        ELSE null

\* typeof row[field] === 'number': the column holds a number, not NULL.
IsNumber(row, field) == Has(row, field)

\* The latency rules tried before the error flag.
OutcomeRules_LatencyFirst(outcome) ==
    IF outcome = null THEN null
    ELSE IF IsNumber(outcome, "latency_ms") /\ outcome.latency_ms > 10000
        THEN Verdict("BAD", "extreme_latency", 90)
    ELSE IF IsNumber(outcome, "latency_ms") /\ outcome.latency_ms > 8000
        THEN Verdict("REVIEW", "high_latency", 80)
    ELSE IF outcome.error_flag # 0
        THEN Verdict("BAD", "error_occurred", 95)
    ELSE IF outcome.action_success = 0 /\ TruthyString(outcome, "action_taken")
        THEN Verdict("REVIEW", "action_failed", 80)
    ELSE IF outcome.action_success = 1 /\ IsNumber(outcome, "latency_ms")
                                     /\ outcome.latency_ms < 5000
        THEN Verdict("GOOD", "successful_fast_action", 85)
    ELSE null

\* The rules evaluateWithOutcome applies to the row its SELECT returned
\* (null when the query has no row in voice_outcomes).
OutcomeRules(outcome) ==
    IF outcome = null THEN null
    ELSE IF outcome.error_flag # 0
        THEN Verdict("BAD", "error_occurred", 95)
    ELSE IF IsNumber(outcome, "latency_ms") /\ outcome.latency_ms > 10000
        THEN Verdict("BAD", "extreme_latency", 90)
    ELSE IF IsNumber(outcome, "latency_ms") /\ outcome.latency_ms > 8000
        THEN Verdict("REVIEW", "high_latency", 80)
    ELSE IF outcome.action_success = 0 /\ TruthyString(outcome, "action_taken")
        THEN Verdict("REVIEW", "action_failed", 80)
    ELSE IF outcome.action_success = 1 /\ IsNumber(outcome, "latency_ms")
                                     /\ outcome.latency_ms < 5000
        THEN Verdict("GOOD", "successful_fast_action", 85)
    ELSE null

LLMFallback == Verdict("REVIEW", "llm_evaluation_failed", 50)

DefaultVerdict == Verdict("REVIEW", "no_evaluation_criteria_met", 50)


\* What fetch() and the parsing of its response can come to (evaluation.ts 228-258).
\* "judgment" carries the value JSON.parse returned for the candidate's text.
LLMJudgments ==
    { null,                                                         \* the text "null"
      [label |-> "GOOD", reason |-> "helpful_answer", confidence |-> 90],
      [label |-> "BAD", reason |-> "", confidence |-> 0],
      [label |-> "MAYBE", reason |-> "unsure", confidence |-> 60],  \* label outside the set
      [reason |-> "unsure", confidence |-> 60] }                    \* label missing

Judgment(j) == [fetch |-> "response", ok |-> TRUE, body |-> "judgment", evaluation |-> j]

LLMResponses ==
    { [fetch |-> "aborted"],                                \* timeout or network error
      [fetch |-> "response", ok |-> FALSE],                 \* non-2xx status
      [fetch |-> "response", ok |-> TRUE, body |-> "not_json"],
      [fetch |-> "response", ok |-> TRUE, body |-> "no_candidates"],
      [fetch |-> "response", ok |-> TRUE, body |-> "text_not_json"] }
    \cup { Judgment(j) : j \in LLMJudgments }

\* The part of evaluateWithLLM after fetch settles: any throw inside the try
\* (rejected fetch, !response.ok, response.json(), result.candidates[0]...,
\* JSON.parse, evaluation.label of null) ends in the catch.
LLMThrows(resp) ==
    \/ resp.fetch = "aborted"
    \/ ~resp.ok
    \/ resp.body # "judgment"
    \/ resp.evaluation = null

LLMResult(resp) ==
    IF LLMThrows(resp) THEN LLMFallback
    ELSE LET evaluation == resp.evaluation
             reason     == IF TruthyString(evaluation, "reason")
                           THEN evaluation.reason ELSE "llm_evaluation"
             confidence == IF TruthyNumber(evaluation, "confidence")
                           THEN evaluation.confidence ELSE 70
         IN  IF Has(evaluation, "label")
             THEN Verdict(evaluation.label, reason, confidence)
             ELSE [reason |-> reason, confidenceScore |-> confidence]

\* The EvaluationResult evaluateQuery builds around a verdict; evaluatedAt
\* (Date.now()) is not modelled.
EvaluationResult(id, verdict) ==
    [f \in {"queryId", "evaluatedBy"} \cup DOMAIN verdict |->
        IF f = "queryId" THEN id ELSE IF f = "evaluatedBy" THEN "auto" ELSE verdict[f]]

-----------------------------------------------------------------------------
(* Configuration *)

NaN == -1

DigitValue(c) ==
    CASE c = "0" -> 0 [] c = "1" -> 1 [] c = "2" -> 2 [] c = "3" -> 3 [] c = "4" -> 4
      [] c = "5" -> 5 [] c = "6" -> 6 [] c = "7" -> 7 [] c = "8" -> 8 [] c = "9" -> 9
      [] OTHER -> NaN

\* parseInt of a string given as its sequence of characters: the value of the
\* longest prefix of decimal digits, NaN when the string starts with no digit.
RECURSIVE ParseDigits(_, _)
ParseDigits(text, acc) ==
    IF text = <<>> \/ DigitValue(Head(text)) = NaN THEN acc
    ELSE ParseDigits(Tail(text), 10 * acc + DigitValue(Head(text)))

parseInt(text) ==
    IF text = <<>> \/ DigitValue(Head(text)) = NaN THEN NaN ELSE ParseDigits(text, 0)

\* parseInt(env.EVAL_BATCH_SIZE || '50')
BatchSize(e) ==
    parseInt(IF Has(e, "EVAL_BATCH_SIZE") /\ e.EVAL_BATCH_SIZE # <<>>
             THEN e.EVAL_BATCH_SIZE ELSE <<"5", "0">>)

\* if (env.GEMINI_API_KEY)
\* Any defined key, the empty string included, counts as a credential.
HasCredential_Defined(e) == Has(e, "GEMINI_API_KEY")

HasCredential(e) == TruthyString(e, "GEMINI_API_KEY")

-----------------------------------------------------------------------------
(* The KV namespace EVAL_QUEUE *)

\* put(name, value, { expirationTtl }): the entry keeps its value and the
\* time to live, in seconds, it was written with.
KVPut(kv, name, value, expirationTtl) ==
    [k \in DOMAIN kv \cup {name} |->
        IF k = name THEN [value |-> value, expirationTtl |-> expirationTtl] ELSE kv[k]]

KVGet(kv, name) == IF name \in DOMAIN kv THEN kv[name].value ELSE null

KVDelete(kv, name) == [k \in DOMAIN kv \ {name} |-> kv[k]]

\* list() without the limit: every key name, in lexicographic order.
KVList_Unlimited(kv, limit) == SortedSeq(DOMAIN kv)

\* list({ limit }): the first limit key names in lexicographic order.
KVList(kv, limit) ==
    SubSeq(SortedSeq(DOMAIN kv), 1, Min(limit, Cardinality(DOMAIN kv)))

-----------------------------------------------------------------------------
(* The D1 tables *)

\* The rows WHERE query_id = ?1, and the other rows.
RowsWith(table, queryId) ==
    [row \in {x \in DOMAIN table : x.query_id = queryId} |-> table[row]]

RowsWithout(table, queryId) ==
    [row \in {x \in DOMAIN table : x.query_id # queryId} |-> table[row]]

InsertRow(table, row) == table (+) SetToBag({row})

\* SELECT ... FROM voice_outcomes WHERE query_id = ?1, .first()
FirstOutcome(table, queryId) ==
    IF \E row \in DOMAIN table : row.query_id = queryId
    THEN CHOOSE row \in DOMAIN table : row.query_id = queryId
    ELSE null

\* Constraints of voice_evaluations: label NOT NULL CHECK (label IN ...),
\* query_id REFERENCES voice_queries(id).  A bound undefined is rejected too.
EvaluationRowAccepted(queries, row) ==
    /\ Has(row, "label")
    /\ row.label \in Labels
    /\ \E q \in DOMAIN queries : q.id = row.query_id

EvaluationRow(evaluation) ==
    [f \in {"query_id", "reason", "confidence_score", "evaluated_by"}
           \cup (IF Has(evaluation, "label") THEN {"label"} ELSE {}) |->
        CASE f = "query_id"         -> evaluation.queryId
          [] f = "label"            -> evaluation.label
          [] f = "reason"           -> evaluation.reason
          [] f = "confidence_score" -> evaluation.confidenceScore
          [] f = "evaluated_by"     -> evaluation.evaluatedBy]

\* A plain INSERT that ignores the primary key.
InsertOrReplace_InsertOnly(table, row) == InsertRow(table, row)

\* INSERT OR REPLACE INTO voice_evaluations: rows in conflict on the primary
\* key query_id are deleted, then the row is inserted.
InsertOrReplace(table, row) ==
    InsertRow(RowsWithout(table, row.query_id), row)


-----------------------------------------------------------------------------
(* ingest.ts: handleIngest *)

\* The store operation awaited at this step rejects.
Fault ==
    /\ faultsInjected < MaxFaults
    /\ faultsInjected' = faultsInjected + 1

\* Row bound by the INSERT INTO voice_queries: x || null and x ? 1 : 0
\* (user_id and intent are not modelled).
QueryRow(event) ==
    [f \in {"id", "store_id", "created_at", "query_text", "fast_path"}
           \cup (IF TruthyNumber(event, "transcriptionConf")
                 THEN {"transcription_conf"} ELSE {})
           \cup (IF TruthyString(event, "sessionId") THEN {"session_id"} ELSE {}) |->
        CASE f = "id"                 -> event.id
          [] f = "store_id"           -> event.storeId
          [] f = "created_at"         -> event.createdAt
          [] f = "query_text"         -> event.queryText
          [] f = "fast_path"          -> IF event.fastPath THEN 1 ELSE 0
          [] f = "transcription_conf" -> event.transcriptionConf
          [] f = "session_id"         -> event.sessionId]

\* Row bound by the INSERT INTO voice_outcomes.
OutcomeRow(event) ==
    [f \in {"query_id", "latency_ms", "action_success", "error_flag"}
           \cup (IF TruthyString(event, "actionTaken") THEN {"action_taken"} ELSE {}) |->
        CASE f = "query_id"       -> event.queryId
          [] f = "latency_ms"     -> event.latencyMs
          [] f = "action_success" -> IF event.actionSuccess THEN 1 ELSE 0
          [] f = "error_flag"     -> IF event.errorFlag THEN 1 ELSE 0
          [] f = "action_taken"   -> event.actionTaken]

\* Row bound by the INSERT INTO llm_calls (the text columns other than
\* error_message are not modelled).
LLMCallRow(event) ==
    [f \in {"call_id", "timestamp", "model_name", "provider", "tokens_prompt",
            "tokens_completion", "latency_ms", "cost_usd"}
           \cup (IF TruthyString(event, "customerId") THEN {"customer_id"} ELSE {})
           \cup (IF TruthyString(event, "errorMessage") THEN {"error_message"} ELSE {}) |->
        CASE f = "call_id"           -> event.callId
          [] f = "timestamp"         -> event.timestamp
          [] f = "model_name"        -> event.modelName
          [] f = "provider"          -> event.provider
          [] f = "tokens_prompt"     -> event.tokensPrompt
          [] f = "tokens_completion" -> event.tokensCompletion
          [] f = "latency_ms"        -> event.latencyMs
          [] f = "cost_usd"          -> event.costUsd
          [] f = "customer_id"       -> event.customerId
          [] f = "error_message"     -> event.errorMessage]

WithField(obj, field, value) ==
    [f \in DOMAIN obj \cup {field} |-> IF f = field THEN value ELSE obj[f]]

\* .bind(...) throws on an undefined argument: the fields bound as they are
\* must be present.
Bindable(event, fields) == \A f \in fields : Has(event, f)

QueryBindable(event) == Bindable(event, {"storeId", "createdAt", "queryText"})

OutcomeBindable(event) == Bindable(event, {"queryId", "latencyMs"})

LLMCallBindable(event) ==
    Bindable(event, {"timestamp", "modelName", "provider", "tokensPrompt",
                     "tokensCompletion", "latencyMs", "costUsd"})

\* voice_outcomes without its primary key.
OutcomeInsertAccepted_NoPrimaryKey(event) ==
    /\ OutcomeBindable(event)
    /\ \E q \in DOMAIN voice_queries : q.id = event.queryId

\* The INSERTs are accepted when nothing is undefined and the key is new (and,
\* for an outcome, the query it REFERENCES exists).
QueryInsertAccepted(event) ==
    /\ QueryBindable(event)
    /\ \A row \in DOMAIN voice_queries : row.id # event.id

OutcomeInsertAccepted(event) ==
    /\ OutcomeBindable(event)
    /\ \E q \in DOMAIN voice_queries : q.id = event.queryId
    /\ \A row \in DOMAIN voice_outcomes : row.query_id # event.queryId

LLMCallInsertAccepted(event) ==
    /\ LLMCallBindable(event)
    /\ \A row \in DOMAIN llm_calls : row.call_id # event.callId

\* new Response(..., { status }) returned for the request.
Respond(request, status) ==
    responses' = responses \cup {[request |-> request, status |-> status]}

\* A task handed to ctx.waitUntil, at its first awaited statement.
HourlyTask(event) == [kind |-> "hourly", event |-> event, pc |-> "update"]

UsageTask(event) == [kind |-> "usage", event |-> event, pc |-> "update"]

InsightsTask(event) == [kind |-> "insights", event |-> event, pc |-> "select"]

\* The id of the event: the payload's, or a fresh generateULID() one.
EventIds(payload, field, ids, used) ==
    IF Has(payload, field) THEN {payload[field]} ELSE ids \ used

\* The event is queued and counted without having been stored.
IngestQuery_SkipsInsert(payload) ==
    /\ payload.type = "query"
    /\ \E id \in EventIds(payload, "id", QueryIds, {row.id : row \in DOMAIN voice_queries}) :
        LET event == WithField(payload, "id", id)
        IN  /\ QueryInsertAccepted(event)
            /\ voice_queries' = voice_queries
            /\ pendingPuts' = pendingPuts \cup {event}
            /\ tasks' = tasks \cup {HourlyTask(event)}
            /\ Respond(payload, 200)
    /\ UNCHANGED <<env, voice_outcomes, voice_evaluations, EVAL_QUEUE, run,
                   faultsInjected, llm_calls, voice_stats_hourly, llm_usage_hourly,
                   customer_insights>>

\* payload.type === 'query', the INSERT succeeds: then the put of the event
\* under its id and updateHourlyStats are handed to ctx.waitUntil, and 200.
IngestQuery(payload) ==
    /\ payload.type = "query"
    /\ \E id \in EventIds(payload, "id", QueryIds, {row.id : row \in DOMAIN voice_queries}) :
        LET event == WithField(payload, "id", id)
        IN  /\ QueryInsertAccepted(event)
            /\ voice_queries' = InsertRow(voice_queries, QueryRow(event))
            /\ pendingPuts' = pendingPuts \cup {event}
            /\ tasks' = tasks \cup {HourlyTask(event)}
            /\ Respond(payload, 200)
    /\ UNCHANGED <<env, voice_outcomes, voice_evaluations, EVAL_QUEUE, run,
                   faultsInjected, llm_calls, voice_stats_hourly, llm_usage_hourly,
                   customer_insights>>

\* The rejected INSERT does not keep the handler from starting the two tasks.
IngestQueryFails_StartsTasks(payload) ==
    /\ payload.type = "query"
    /\ \/ /\ \E id \in EventIds(payload, "id", QueryIds,
                                {row.id : row \in DOMAIN voice_queries}) :
                ~QueryInsertAccepted(WithField(payload, "id", id))
          /\ UNCHANGED faultsInjected
       \/ Fault
    /\ Respond(payload, 500)
    /\ pendingPuts' = pendingPuts \cup {payload}
    /\ tasks' = tasks \cup {HourlyTask(payload)}
    /\ UNCHANGED <<env, voice_queries, voice_outcomes, voice_evaluations, EVAL_QUEUE,
                   run, llm_calls, voice_stats_hourly, llm_usage_hourly,
                   customer_insights>>

\* payload.type === 'query', the INSERT rejects: catch, 500.
IngestQueryFails(payload) ==
    /\ payload.type = "query"
    /\ \/ /\ \E id \in EventIds(payload, "id", QueryIds,
                                {row.id : row \in DOMAIN voice_queries}) :
                ~QueryInsertAccepted(WithField(payload, "id", id))
          /\ UNCHANGED faultsInjected
       \/ Fault
    /\ Respond(payload, 500)
    /\ UNCHANGED <<env, voice_queries, voice_outcomes, voice_evaluations, EVAL_QUEUE,
                   pendingPuts, run, tasks, llm_calls, voice_stats_hourly,
                   llm_usage_hourly, customer_insights>>

\* The entry is written with a time to live of one minute.
Enqueue_OneMinute(event) ==
    /\ event \in pendingPuts
    /\ pendingPuts' = pendingPuts \ {event}
    /\ EVAL_QUEUE' = KVPut(EVAL_QUEUE, event.id, event, 60)
    /\ UNCHANGED ingestVars
    /\ UNCHANGED <<env, voice_queries, voice_outcomes, voice_evaluations, run,
                   faultsInjected>>

\* EVAL_QUEUE.put(event.id, JSON.stringify(event), { expirationTtl: 3600 }) settles.
Enqueue(event) ==
    /\ event \in pendingPuts
    /\ pendingPuts' = pendingPuts \ {event}
    /\ EVAL_QUEUE' = KVPut(EVAL_QUEUE, event.id, event, 3600)
    /\ UNCHANGED ingestVars
    /\ UNCHANGED <<env, voice_queries, voice_outcomes, voice_evaluations, run,
                   faultsInjected>>

\* The rejected put is left to be tried again.
EnqueueFails_Retries(event) ==
    /\ event \in pendingPuts
    /\ faultsInjected < MaxFaults
    /\ faultsInjected' = faultsInjected + 1
    /\ UNCHANGED ingestVars
    /\ UNCHANGED <<env, voice_queries, voice_outcomes, voice_evaluations, EVAL_QUEUE,
                   pendingPuts, run>>

\* The put rejects: .catch logs the error, nothing is queued.
EnqueueFails(event) ==
    /\ event \in pendingPuts
    /\ faultsInjected < MaxFaults
    /\ faultsInjected' = faultsInjected + 1
    /\ pendingPuts' = pendingPuts \ {event}
    /\ UNCHANGED ingestVars
    /\ UNCHANGED <<env, voice_queries, voice_outcomes, voice_evaluations, EVAL_QUEUE,
                   run>>

\* The entry's expirationTtl elapses.
Expire(name) ==
    /\ name \in DOMAIN EVAL_QUEUE
    /\ EVAL_QUEUE' = KVDelete(EVAL_QUEUE, name)
    /\ UNCHANGED ingestVars
    /\ UNCHANGED <<env, voice_queries, voice_outcomes, voice_evaluations, pendingPuts,
                   run, faultsInjected>>

\* payload.type === 'outcome': the INSERT succeeds when the query exists
\* (query_id REFERENCES voice_queries(id)) and has no outcome row yet
\* (query_id PRIMARY KEY); 200.
IngestOutcome(event) ==
    /\ event.type = "outcome"
    /\ OutcomeInsertAccepted(event)
    /\ voice_outcomes' = InsertRow(voice_outcomes, OutcomeRow(event))
    /\ Respond(event, 200)
    /\ UNCHANGED <<env, voice_queries, voice_evaluations, EVAL_QUEUE, pendingPuts, run,
                   faultsInjected, tasks, llm_calls, voice_stats_hourly,
                   llm_usage_hourly, customer_insights>>

\* payload.type === 'outcome', the INSERT rejects: catch, 500.
IngestOutcomeFails(event) ==
    /\ event.type = "outcome"
    /\ \/ ~OutcomeInsertAccepted(event) /\ UNCHANGED faultsInjected
       \/ Fault
    /\ Respond(event, 500)
    /\ UNCHANGED <<env, voice_queries, voice_outcomes, voice_evaluations, EVAL_QUEUE,
                   pendingPuts, run, tasks, llm_calls, voice_stats_hourly,
                   llm_usage_hourly, customer_insights>>

\* updateCustomerInsights is started for every llm_call event.
IngestLLMCall_AlwaysInsights(payload) ==
    /\ payload.type = "llm_call"
    /\ \E id \in EventIds(payload, "callId", CallIds,
                          {row.call_id : row \in DOMAIN llm_calls}) :
        LET event == WithField(payload, "callId", id)
        IN  /\ LLMCallInsertAccepted(event)
            /\ llm_calls' = InsertRow(llm_calls, LLMCallRow(event))
            /\ tasks' = tasks \cup {UsageTask(event), InsightsTask(event)}
            /\ Respond(payload, 200)
    /\ UNCHANGED <<env, voice_queries, voice_outcomes, voice_evaluations, EVAL_QUEUE,
                   pendingPuts, run, faultsInjected, voice_stats_hourly,
                   llm_usage_hourly, customer_insights>>

\* payload.type === 'llm_call', the INSERT succeeds: updateLLMUsageStats and,
\* with a customerId, updateCustomerInsights are handed to ctx.waitUntil; 200.
IngestLLMCall(payload) ==
    /\ payload.type = "llm_call"
    /\ \E id \in EventIds(payload, "callId", CallIds,
                          {row.call_id : row \in DOMAIN llm_calls}) :
        LET event == WithField(payload, "callId", id)
        IN  /\ LLMCallInsertAccepted(event)
            /\ llm_calls' = InsertRow(llm_calls, LLMCallRow(event))
            /\ tasks' = tasks \cup {UsageTask(event)}
                          \cup (IF TruthyString(event, "customerId")
                                THEN {InsightsTask(event)} ELSE {})
            /\ Respond(payload, 200)
    /\ UNCHANGED <<env, voice_queries, voice_outcomes, voice_evaluations, EVAL_QUEUE,
                   pendingPuts, run, faultsInjected, voice_stats_hourly,
                   llm_usage_hourly, customer_insights>>

\* payload.type === 'llm_call', the INSERT rejects: catch, 500.
IngestLLMCallFails(payload) ==
    /\ payload.type = "llm_call"
    /\ \/ /\ \E id \in EventIds(payload, "callId", CallIds,
                                {row.call_id : row \in DOMAIN llm_calls}) :
                ~LLMCallInsertAccepted(WithField(payload, "callId", id))
          /\ UNCHANGED faultsInjected
       \/ Fault
    /\ Respond(payload, 500)
    /\ UNCHANGED <<env, voice_queries, voice_outcomes, voice_evaluations, EVAL_QUEUE,
                   pendingPuts, run, tasks, llm_calls, voice_stats_hourly,
                   llm_usage_hourly, customer_insights>>

\* An unknown type is answered like a stored event.
IngestUnknown_Accepts(payload) ==
    /\ payload # null
    /\ IF Has(payload, "type")
       THEN payload.type \notin {"query", "outcome", "llm_call"}
       ELSE TRUE
    /\ Respond(payload, 200)
    /\ UNCHANGED <<env, voice_queries, voice_outcomes, voice_evaluations, EVAL_QUEUE,
                   pendingPuts, run, faultsInjected, tasks, llm_calls,
                   voice_stats_hourly, llm_usage_hourly, customer_insights>>

\* The payload is an object whose type is none of the three: warn, 400.
IngestUnknown(payload) ==
    /\ payload # null
    /\ IF Has(payload, "type")
       THEN payload.type \notin {"query", "outcome", "llm_call"}
       ELSE TRUE
    /\ Respond(payload, 400)
    /\ UNCHANGED <<env, voice_queries, voice_outcomes, voice_evaluations, EVAL_QUEUE,
                   pendingPuts, run, faultsInjected, tasks, llm_calls,
                   voice_stats_hourly, llm_usage_hourly, customer_insights>>

\* request.json() rejects (the body is not JSON), or the body is the JSON
\* null and payload.type throws: catch, 500.
IngestUnparsed(request) ==
    /\ request = null \/ Has(request, "body")
    /\ Respond(request, 500)
    /\ UNCHANGED <<env, voice_queries, voice_outcomes, voice_evaluations, EVAL_QUEUE,
                   pendingPuts, run, faultsInjected, tasks, llm_calls,
                   voice_stats_hourly, llm_usage_hourly, customer_insights>>

-----------------------------------------------------------------------------
(* ingest.ts: the aggregate updates run under ctx.waitUntil, one step per *)
(* awaited statement                                                      *)

getHourBucket(timestamp) == (timestamp \div 3600000) * 3600

RECURSIVE GCD(_, _)
GCD(a, b) == IF b = 0 THEN a ELSE GCD(b, a % b)

\* A JavaScript number that need not be an integer, as a reduced fraction.
Fraction(n, d) == [num |-> n \div GCD(n, d), den |-> d \div GCD(n, d)]

\* The task has settled, or goes on at pc.
Settle(task) == tasks' = tasks \ {task}

Goto(task, pc) == tasks' = (tasks \ {task}) \cup {[task EXCEPT !.pc = pc]}

\* After total_queries is written: the unique_sessions statement runs only
\* for an event with a sessionId.
AfterCount(task) ==
    IF TruthyString(task.event, "sessionId") THEN Goto(task, "sessions") ELSE Settle(task)

HourlyMatch(row, event) ==
    /\ row.store_id = event.storeId
    /\ row.hour_bucket = getHourBucket(event.createdAt)

\* The statement takes one off total_queries.
HourlyUpdate_Decrements(task) ==
    /\ task \in tasks
    /\ task.kind = "hourly"
    /\ task.pc = "update"
    /\ voice_stats_hourly' =
         BagOfAll(LAMBDA row : IF HourlyMatch(row, task.event)
                               THEN [row EXCEPT !.total_queries = @ - 1] ELSE row,
                  voice_stats_hourly)
    /\ IF \E row \in DOMAIN voice_stats_hourly : HourlyMatch(row, task.event)
       THEN AfterCount(task)
       ELSE Goto(task, "insert")
    /\ UNCHANGED <<env, voice_queries, voice_outcomes, voice_evaluations, EVAL_QUEUE,
                   pendingPuts, run, faultsInjected, responses, llm_calls,
                   llm_usage_hourly, customer_insights>>

\* UPDATE voice_stats_hourly SET total_queries = total_queries + 1 WHERE ...;
\* result.meta.changes === 0 leads to the INSERT.
HourlyUpdate(task) ==
    /\ task \in tasks
    /\ task.kind = "hourly"
    /\ task.pc = "update"
    /\ voice_stats_hourly' =
         BagOfAll(LAMBDA row : IF HourlyMatch(row, task.event)
                               THEN [row EXCEPT !.total_queries = @ + 1] ELSE row,
                  voice_stats_hourly)
    /\ IF \E row \in DOMAIN voice_stats_hourly : HourlyMatch(row, task.event)
       THEN AfterCount(task)
       ELSE Goto(task, "insert")
    /\ UNCHANGED <<env, voice_queries, voice_outcomes, voice_evaluations, EVAL_QUEUE,
                   pendingPuts, run, faultsInjected, responses, llm_calls,
                   llm_usage_hourly, customer_insights>>

\* The row is created with total_queries 0.
HourlyInsert_CountsFromZero(task) ==
    /\ task \in tasks
    /\ task.kind = "hourly"
    /\ task.pc = "insert"
    /\ IF \E row \in DOMAIN voice_stats_hourly : HourlyMatch(row, task.event)
       THEN /\ Settle(task)
            /\ UNCHANGED voice_stats_hourly
       ELSE /\ AfterCount(task)
            /\ voice_stats_hourly' =
                 InsertRow(voice_stats_hourly,
                           [store_id |-> task.event.storeId,
                            hour_bucket |-> getHourBucket(task.event.createdAt),
                            total_queries |-> 0,
                            successful_queries |-> 0, failed_queries |-> 0,
                            total_latency_ms |-> 0, total_cost_usd |-> 0,
                            unique_sessions |-> 0])
    /\ UNCHANGED <<env, voice_queries, voice_outcomes, voice_evaluations, EVAL_QUEUE,
                   pendingPuts, run, faultsInjected, responses, llm_calls,
                   llm_usage_hourly, customer_insights>>

\* INSERT INTO voice_stats_hourly ... VALUES (?1, ?2, 1, 0, 0, 0, 0, 0); a row
\* with that (store_id, hour_bucket) makes it reject, which the catch logs.
HourlyInsert(task) ==
    /\ task \in tasks
    /\ task.kind = "hourly"
    /\ task.pc = "insert"
    /\ IF \E row \in DOMAIN voice_stats_hourly : HourlyMatch(row, task.event)
       THEN /\ Settle(task)
            /\ UNCHANGED voice_stats_hourly
       ELSE /\ AfterCount(task)
            /\ voice_stats_hourly' =
                 InsertRow(voice_stats_hourly,
                           [store_id |-> task.event.storeId,
                            hour_bucket |-> getHourBucket(task.event.createdAt),
                            total_queries |-> 1,
                            successful_queries |-> 0, failed_queries |-> 0,
                            total_latency_ms |-> 0, total_cost_usd |-> 0,
                            unique_sessions |-> 0])
    /\ UNCHANGED <<env, voice_queries, voice_outcomes, voice_evaluations, EVAL_QUEUE,
                   pendingPuts, run, faultsInjected, responses, llm_calls,
                   llm_usage_hourly, customer_insights>>

\* COUNT(session_id): every query with a session is counted.
DistinctSessions_CountsRows(store, bucket) ==
    BagCardinality(
        BagOfAll(LAMBDA row : row.id,
                 [row \in { q \in DOMAIN voice_queries :
                              /\ Has(q, "session_id")
                              /\ q.store_id = store
                              /\ q.created_at >= bucket * 1000
                              /\ q.created_at < (bucket + 3600) * 1000 } |->
                    voice_queries[row]]))

\* A query without a session counts as one more session.
DistinctSessions_CountsNull(store, bucket) ==
    Cardinality({ IF Has(row, "session_id") THEN row.session_id ELSE "" :
                    row \in { q \in DOMAIN voice_queries :
                                /\ q.store_id = store
                                /\ q.created_at >= bucket * 1000
                                /\ q.created_at < (bucket + 3600) * 1000 } })

\* SELECT COUNT(DISTINCT session_id) FROM voice_queries WHERE store_id = ?1
\* AND created_at >= ?2 * 1000 AND created_at < (?2 + 3600) * 1000
DistinctSessions(store, bucket) ==
    Cardinality({ row.session_id :
                    row \in { q \in DOMAIN voice_queries :
                                /\ Has(q, "session_id")
                                /\ q.store_id = store
                                /\ q.created_at >= bucket * 1000
                                /\ q.created_at < (bucket + 3600) * 1000 } })

\* UPDATE voice_stats_hourly SET unique_sessions = (SELECT ...) WHERE ...
HourlySessions(task) ==
    /\ task \in tasks
    /\ task.kind = "hourly"
    /\ task.pc = "sessions"
    /\ voice_stats_hourly' =
         BagOfAll(LAMBDA row :
                    IF HourlyMatch(row, task.event)
                    THEN [row EXCEPT !.unique_sessions =
                            DistinctSessions(task.event.storeId,
                                             getHourBucket(task.event.createdAt))]
                    ELSE row,
                  voice_stats_hourly)
    /\ Settle(task)
    /\ UNCHANGED <<env, voice_queries, voice_outcomes, voice_evaluations, EVAL_QUEUE,
                   pendingPuts, run, faultsInjected, responses, llm_calls,
                   llm_usage_hourly, customer_insights>>

UsageMatch(row, event) ==
    /\ row.hour_bucket = getHourBucket(event.timestamp)
    /\ row.model_name = event.modelName

hasError(event) == IF TruthyString(event, "errorMessage") THEN 1 ELSE 0

\* UPDATE llm_usage_hourly SET total_calls = total_calls + 1, ... WHERE
\* hour_bucket = ?1 AND model_name = ?2
UsageUpdate(task) ==
    /\ task \in tasks
    /\ task.kind = "usage"
    /\ task.pc = "update"
    /\ llm_usage_hourly' =
         BagOfAll(LAMBDA row :
                    IF UsageMatch(row, task.event)
                    THEN [row EXCEPT
                            !.total_calls = @ + 1,
                            !.total_tokens = @ + task.event.tokensPrompt
                                               + task.event.tokensCompletion,
                            !.total_cost_usd = @ + task.event.costUsd,
                            !.total_latency_ms = @ + task.event.latencyMs,
                            !.error_count = @ + hasError(task.event)]
                    ELSE row,
                  llm_usage_hourly)
    /\ IF \E row \in DOMAIN llm_usage_hourly : UsageMatch(row, task.event)
       THEN Settle(task)
       ELSE Goto(task, "insert")
    /\ UNCHANGED <<env, voice_queries, voice_outcomes, voice_evaluations, EVAL_QUEUE,
                   pendingPuts, run, faultsInjected, responses, llm_calls,
                   voice_stats_hourly, customer_insights>>

\* The new row's total_tokens holds the prompt tokens only.
UsageInsert_PromptTokensOnly(task) ==
    /\ task \in tasks
    /\ task.kind = "usage"
    /\ task.pc = "insert"
    /\ Settle(task)
    /\ IF \E row \in DOMAIN llm_usage_hourly :
            UsageMatch(row, task.event) /\ row.provider = task.event.provider
       THEN UNCHANGED llm_usage_hourly
       ELSE llm_usage_hourly' =
              InsertRow(llm_usage_hourly,
                        [hour_bucket |-> getHourBucket(task.event.timestamp),
                         model_name |-> task.event.modelName,
                         provider |-> task.event.provider,
                         total_calls |-> 1,
                         total_tokens |-> task.event.tokensPrompt,
                         total_cost_usd |-> task.event.costUsd,
                         total_latency_ms |-> task.event.latencyMs,
                         error_count |-> hasError(task.event)])
    /\ UNCHANGED <<env, voice_queries, voice_outcomes, voice_evaluations, EVAL_QUEUE,
                   pendingPuts, run, faultsInjected, responses, llm_calls,
                   voice_stats_hourly, customer_insights>>

\* INSERT INTO llm_usage_hourly ...; PRIMARY KEY (hour_bucket, model_name, provider)
UsageInsert(task) ==
    /\ task \in tasks
    /\ task.kind = "usage"
    /\ task.pc = "insert"
    /\ Settle(task)
    /\ IF \E row \in DOMAIN llm_usage_hourly :
            UsageMatch(row, task.event) /\ row.provider = task.event.provider
       THEN UNCHANGED llm_usage_hourly
       ELSE llm_usage_hourly' =
              InsertRow(llm_usage_hourly,
                        [hour_bucket |-> getHourBucket(task.event.timestamp),
                         model_name |-> task.event.modelName,
                         provider |-> task.event.provider,
                         total_calls |-> 1,
                         total_tokens |-> task.event.tokensPrompt
                                            + task.event.tokensCompletion,
                         total_cost_usd |-> task.event.costUsd,
                         total_latency_ms |-> task.event.latencyMs,
                         error_count |-> hasError(task.event)])
    /\ UNCHANGED <<env, voice_queries, voice_outcomes, voice_evaluations, EVAL_QUEUE,
                   pendingPuts, run, faultsInjected, responses, llm_calls,
                   voice_stats_hourly, customer_insights>>

\* SELECT ... FROM customer_insights WHERE customer_id = ?1, .first()
InsightsSelect(task) ==
    /\ task \in tasks
    /\ task.kind = "insights"
    /\ task.pc = "select"
    /\ LET found == { row \in DOMAIN customer_insights :
                        row.customer_id = task.event.customerId }
           existing == IF found = {} THEN null ELSE CHOOSE row \in found : TRUE
       IN  tasks' = (tasks \ {task})
                      \cup {[kind |-> "insights", event |-> task.event, pc |-> "write",
                             existing |-> existing]}
    /\ UNCHANGED <<env, voice_queries, voice_outcomes, voice_evaluations, EVAL_QUEUE,
                   pendingPuts, run, faultsInjected, responses, llm_calls,
                   voice_stats_hourly, llm_usage_hourly, customer_insights>>

\* The new average is the mean of the old average and the new latency.
UpdatedInsight_MeanOfTwo(existing, event) ==
    LET newInteractions == existing.total_interactions + 1
        avg == existing.avg_latency_ms
    IN  [existing EXCEPT
           !.total_interactions = newInteractions,
           !.total_cost_usd = existing.total_cost_usd + event.costUsd,
           !.avg_latency_ms = Fraction(avg.num + event.latencyMs * avg.den, avg.den * 2),
           !.last_active = event.timestamp]

\* The values the UPDATE binds, computed from the row read before.
UpdatedInsight(existing, event) ==
    LET newInteractions == existing.total_interactions + 1
        avg == existing.avg_latency_ms
    IN  [existing EXCEPT
           !.total_interactions = newInteractions,
           !.total_cost_usd = existing.total_cost_usd + event.costUsd,
           !.avg_latency_ms =
               Fraction(avg.num * existing.total_interactions + event.latencyMs * avg.den,
                        avg.den * newInteractions),
           !.last_active = event.timestamp]

\* The UPDATE counts in place (total_interactions = total_interactions + 1)
\* and binds the average computed from the row read before.
InsightsWrite_CountsInPlace(task) ==
    /\ task \in tasks
    /\ task.kind = "insights"
    /\ task.pc = "write"
    /\ Settle(task)
    /\ LET written == UpdatedInsight(task.existing, task.event)
       IN
       IF task.existing # null
       THEN customer_insights' =
              BagOfAll(LAMBDA row :
                         IF row.customer_id = task.event.customerId
                         THEN [row EXCEPT
                                 !.total_interactions = @ + 1,
                                 !.total_cost_usd = written.total_cost_usd,
                                 !.avg_latency_ms = written.avg_latency_ms,
                                 !.last_active = written.last_active]
                         ELSE row,
                       customer_insights)
       ELSE IF \E row \in DOMAIN customer_insights :
                  row.customer_id = task.event.customerId
       THEN UNCHANGED customer_insights
       ELSE customer_insights' =
              InsertRow(customer_insights,
                        [customer_id |-> task.event.customerId,
                         total_interactions |-> 1,
                         total_cost_usd |-> task.event.costUsd,
                         avg_latency_ms |-> Fraction(task.event.latencyMs, 1),
                         satisfaction_score |-> 50,
                         last_active |-> task.event.timestamp])
    /\ UNCHANGED <<env, voice_queries, voice_outcomes, voice_evaluations, EVAL_QUEUE,
                   pendingPuts, run, faultsInjected, responses, llm_calls,
                   voice_stats_hourly, llm_usage_hourly>>

\* The update writes the whole row again, as the INSERT does.
InsightsWrite_Rewrites(task) ==
    /\ task \in tasks
    /\ task.kind = "insights"
    /\ task.pc = "write"
    /\ Settle(task)
    /\ LET written == UpdatedInsight(task.existing, task.event)
       IN
       IF task.existing # null
       THEN customer_insights' =
              BagOfAll(LAMBDA row :
                         IF row.customer_id = task.event.customerId
                         THEN [customer_id |-> row.customer_id,
                               total_interactions |-> written.total_interactions,
                               total_cost_usd |-> written.total_cost_usd,
                               avg_latency_ms |-> written.avg_latency_ms,
                               satisfaction_score |-> 50,
                               last_active |-> written.last_active]
                         ELSE row,
                       customer_insights)
       ELSE IF \E row \in DOMAIN customer_insights :
                  row.customer_id = task.event.customerId
       THEN UNCHANGED customer_insights
       ELSE customer_insights' =
              InsertRow(customer_insights,
                        [customer_id |-> task.event.customerId,
                         total_interactions |-> 1,
                         total_cost_usd |-> task.event.costUsd,
                         avg_latency_ms |-> Fraction(task.event.latencyMs, 1),
                         satisfaction_score |-> 50,
                         last_active |-> task.event.timestamp])
    /\ UNCHANGED <<env, voice_queries, voice_outcomes, voice_evaluations, EVAL_QUEUE,
                   pendingPuts, run, faultsInjected, responses, llm_calls,
                   voice_stats_hourly, llm_usage_hourly>>

\* if (existing) UPDATE customer_insights SET ... WHERE customer_id = ?6
\* else INSERT INTO customer_insights ... VALUES (?1, 1, ?2, ?3, 0.5, ?4, ?5),
\* which a row with that customer_id makes reject (insights_updated, Date.now(),
\* is not modelled).
InsightsWrite(task) ==
    /\ task \in tasks
    /\ task.kind = "insights"
    /\ task.pc = "write"
    /\ Settle(task)
    /\ LET written == UpdatedInsight(task.existing, task.event)
       IN
       IF task.existing # null
       THEN customer_insights' =
              BagOfAll(LAMBDA row :
                         IF row.customer_id = task.event.customerId
                         THEN [row EXCEPT
                                 !.total_interactions = written.total_interactions,
                                 !.total_cost_usd = written.total_cost_usd,
                                 !.avg_latency_ms = written.avg_latency_ms,
                                 !.last_active = written.last_active]
                         ELSE row,
                       customer_insights)
       ELSE IF \E row \in DOMAIN customer_insights :
                  row.customer_id = task.event.customerId
       THEN UNCHANGED customer_insights
       ELSE customer_insights' =
              InsertRow(customer_insights,
                        [customer_id |-> task.event.customerId,
                         total_interactions |-> 1,
                         total_cost_usd |-> task.event.costUsd,
                         avg_latency_ms |-> Fraction(task.event.latencyMs, 1),
                         satisfaction_score |-> 50,
                         last_active |-> task.event.timestamp])
    /\ UNCHANGED <<env, voice_queries, voice_outcomes, voice_evaluations, EVAL_QUEUE,
                   pendingPuts, run, faultsInjected, responses, llm_calls,
                   voice_stats_hourly, llm_usage_hourly>>

\* The statement a task awaits rejects: its catch logs, the task ends.
TaskFails(task) ==
    /\ task \in tasks
    /\ Fault
    /\ Settle(task)
    /\ UNCHANGED <<env, voice_queries, voice_outcomes, voice_evaluations, EVAL_QUEUE,
                   pendingPuts, run, responses, llm_calls, voice_stats_hourly,
                   llm_usage_hourly, customer_insights>>

\* The steps of the tasks started by query events, and by llm_call events.
HourlyStep(task) == HourlyUpdate(task) \/ HourlyInsert(task) \/ HourlySessions(task)

LLMCallStep(task) ==
    \/ UsageUpdate(task)
    \/ UsageInsert(task)
    \/ InsightsSelect(task)
    \/ InsightsWrite(task)

-----------------------------------------------------------------------------
(* evaluation.ts: evaluateBatch, one step per awaited operation *)

IdleRun ==
    [pc |-> "idle", keys |-> <<>>, idx |-> 1, queryData |-> null, outcome |-> null,
     response |-> null, evaluation |-> null, log |-> <<>>, initialCount |-> 0]

Key(r) == run[r].keys[run[r].idx]

\* End of one iteration of the for loop.  log keeps, per listed key, how its
\* iteration ended ("absent": no payload; "evaluated": written and deleted;
\* "failed": caught) and what the quality model had answered, if it was called.
NextItem(rr, status) ==
    [rr EXCEPT !.log = Append(@, [status |-> status, response |-> rr.response]),
               !.idx = @ + 1,
               !.queryData = null,
               !.outcome = null,
               !.response = null,
               !.evaluation = null,
               !.pc = IF rr.idx + 1 > Len(rr.keys) THEN "done" ELSE "get"]

\* The catch ends the run instead of going on with the next key.
ItemCatch_Abort(rr) == [rr EXCEPT !.pc = "failed"]

\* catch (error) of the for loop body: logged, the loop goes on.
ItemCatch(rr) == NextItem(rr, "failed")

SetRun(r, rr) == run' = [run EXCEPT ![r] = rr]

\* scheduled -> evaluateBatch: EVAL_QUEUE.list({ limit: batchSize }).
StartBatch(r) ==
    /\ run[r].pc \in {"idle", "done", "failed"}
    /\ BatchSize(env) >= 1
    /\ LET keys == KVList(EVAL_QUEUE, BatchSize(env))
       IN  SetRun(r, [IdleRun EXCEPT !.keys = keys,
                                     !.pc = IF keys = <<>> THEN "done" ELSE "get",
                                     !.initialCount = Cardinality(DOMAIN EVAL_QUEUE)])
    /\ UNCHANGED ingestVars
    /\ UNCHANGED <<env, voice_queries, voice_outcomes, voice_evaluations, EVAL_QUEUE,
                   pendingPuts, faultsInjected>>

\* list rejects: the outer catch logs and rethrows, scheduled catches.
ListFails(r) ==
    /\ run[r].pc \in {"idle", "done", "failed"}
    /\ Fault
    /\ SetRun(r, [IdleRun EXCEPT !.pc = "failed"])
    /\ UNCHANGED ingestVars
    /\ UNCHANGED <<env, voice_queries, voice_outcomes, voice_evaluations, EVAL_QUEUE,
                   pendingPuts>>

\* A key without payload is not skipped: the run goes on to delete it.
Get_DeletesAbsent(r) ==
    /\ run[r].pc = "get"
    /\ LET queryData == KVGet(EVAL_QUEUE, Key(r))
           heuristicResult == evaluateWithHeuristics(queryData)
       IN  SetRun(r,
             IF queryData = null THEN [run[r] EXCEPT !.pc = "delete"]
             ELSE IF heuristicResult # null
               THEN [run[r] EXCEPT !.queryData = queryData, !.pc = "store",
                        !.evaluation = EvaluationResult(queryData.id, heuristicResult)]
             ELSE [run[r] EXCEPT !.queryData = queryData, !.pc = "outcome"])
    /\ UNCHANGED ingestVars
    /\ UNCHANGED <<env, voice_queries, voice_outcomes, voice_evaluations, EVAL_QUEUE,
                   pendingPuts, faultsInjected>>

\* EVAL_QUEUE.get(key.name, 'json'); if (!queryData) continue; then
\* evaluateQuery runs evaluateWithHeuristics before its first await.
Get(r) ==
    /\ run[r].pc = "get"
    /\ LET queryData == KVGet(EVAL_QUEUE, Key(r))
           heuristicResult == evaluateWithHeuristics(queryData)
       IN  SetRun(r,
             IF queryData = null THEN NextItem(run[r], "absent")
             ELSE IF heuristicResult # null
               THEN [run[r] EXCEPT !.queryData = queryData, !.pc = "store",
                        !.evaluation = EvaluationResult(queryData.id, heuristicResult)]
             ELSE [run[r] EXCEPT !.queryData = queryData, !.pc = "outcome"])
    /\ UNCHANGED ingestVars
    /\ UNCHANGED <<env, voice_queries, voice_outcomes, voice_evaluations, EVAL_QUEUE,
                   pendingPuts, faultsInjected>>

GetFails(r) ==
    /\ run[r].pc = "get"
    /\ Fault
    /\ SetRun(r, ItemCatch(run[r]))
    /\ UNCHANGED ingestVars
    /\ UNCHANGED <<env, voice_queries, voice_outcomes, voice_evaluations, EVAL_QUEUE,
                   pendingPuts>>

\* evaluateQuery after evaluateWithOutcome, whose SELECT gave outcome (null: no
\* row, or the SELECT rejected), returned outcomeResult.
AfterOutcome(r0, outcome, outcomeResult) ==
    LET rr == [r0 EXCEPT !.outcome = outcome]
    IN
    IF outcomeResult # null
        THEN [rr EXCEPT !.pc = "store",
                        !.evaluation = EvaluationResult(rr.queryData.id, outcomeResult)]
    ELSE IF HasCredential(env)
        THEN [rr EXCEPT !.pc = "llm_context"]
    ELSE [rr EXCEPT !.pc = "store",
                    !.evaluation = EvaluationResult(rr.queryData.id, DefaultVerdict)]

\* evaluateWithOutcome: the SELECT on voice_outcomes, then the rules.
ReadOutcome(r) ==
    /\ run[r].pc = "outcome"
    /\ LET outcome == FirstOutcome(voice_outcomes, run[r].queryData.id)
       IN  SetRun(r, AfterOutcome(run[r], outcome, OutcomeRules(outcome)))
    /\ UNCHANGED ingestVars
    /\ UNCHANGED <<env, voice_queries, voice_outcomes, voice_evaluations, EVAL_QUEUE,
                   pendingPuts, faultsInjected>>

\* The rejected SELECT is thrown out of evaluateQuery to the loop's catch.
ReadOutcomeFails_Propagates(r) ==
    /\ run[r].pc = "outcome"
    /\ Fault
    /\ SetRun(r, ItemCatch(run[r]))
    /\ UNCHANGED ingestVars
    /\ UNCHANGED <<env, voice_queries, voice_outcomes, voice_evaluations, EVAL_QUEUE,
                   pendingPuts>>

\* The SELECT rejects: evaluateWithOutcome logs and returns null.
ReadOutcomeFails(r) ==
    /\ run[r].pc = "outcome"
    /\ Fault
    /\ SetRun(r, AfterOutcome(run[r], null, null))
    /\ UNCHANGED ingestVars
    /\ UNCHANGED <<env, voice_queries, voice_outcomes, voice_evaluations, EVAL_QUEUE,
                   pendingPuts>>

\* evaluateWithLLM: the SELECT for the prompt's context succeeds, fetch starts.
ReadContext(r) ==
    /\ run[r].pc = "llm_context"
    /\ SetRun(r, [run[r] EXCEPT !.pc = "llm_fetch"])
    /\ UNCHANGED ingestVars
    /\ UNCHANGED <<env, voice_queries, voice_outcomes, voice_evaluations, EVAL_QUEUE,
                   pendingPuts, faultsInjected>>

\* That SELECT rejects inside evaluateWithLLM's try: the catch returns the fallback.
ReadContextFails(r) ==
    /\ run[r].pc = "llm_context"
    /\ Fault
    /\ SetRun(r, [run[r] EXCEPT !.pc = "store",
                     !.evaluation = EvaluationResult(run[r].queryData.id, LLMFallback)])
    /\ UNCHANGED ingestVars
    /\ UNCHANGED <<env, voice_queries, voice_outcomes, voice_evaluations, EVAL_QUEUE,
                   pendingPuts>>

\* A failed call is thrown out of evaluateWithLLM to the loop's catch.
Fetch_Propagates(r, resp) ==
    /\ run[r].pc = "llm_fetch"
    /\ SetRun(r, IF LLMThrows(resp)
                 THEN ItemCatch([run[r] EXCEPT !.response = resp])
                 ELSE [run[r] EXCEPT !.pc = "store", !.response = resp,
                          !.evaluation = EvaluationResult(run[r].queryData.id, LLMResult(resp))])
    /\ UNCHANGED ingestVars
    /\ UNCHANGED <<env, voice_queries, voice_outcomes, voice_evaluations, EVAL_QUEUE,
                   pendingPuts, faultsInjected>>

\* A failed call is tried again: the run stays at the fetch.
Fetch_Retries(r, resp) ==
    /\ run[r].pc = "llm_fetch"
    /\ SetRun(r, IF LLMThrows(resp)
                 THEN [run[r] EXCEPT !.response = resp]
                 ELSE [run[r] EXCEPT !.pc = "store", !.response = resp,
                          !.evaluation = EvaluationResult(run[r].queryData.id, LLMResult(resp))])
    /\ UNCHANGED ingestVars
    /\ UNCHANGED <<env, voice_queries, voice_outcomes, voice_evaluations, EVAL_QUEUE,
                   pendingPuts, faultsInjected>>

\* fetch settles (response, or abort after the 10 s timeout) and is parsed.
Fetch(r, resp) ==
    /\ run[r].pc = "llm_fetch"
    /\ SetRun(r, [run[r] EXCEPT !.pc = "store", !.response = resp,
                     !.evaluation = EvaluationResult(run[r].queryData.id, LLMResult(resp))])
    /\ UNCHANGED ingestVars
    /\ UNCHANGED <<env, voice_queries, voice_outcomes, voice_evaluations, EVAL_QUEUE,
                   pendingPuts, faultsInjected>>

\* A rejected write is not noticed: the run goes on to delete the key.
Store_IgnoresRejection(r) ==
    /\ run[r].pc = "store"
    /\ LET row == EvaluationRow(run[r].evaluation)
       IN  IF EvaluationRowAccepted(voice_queries, row)
           THEN /\ voice_evaluations' = InsertOrReplace(voice_evaluations, row)
                /\ SetRun(r, [run[r] EXCEPT !.pc = "delete"])
           ELSE /\ voice_evaluations' = voice_evaluations
                /\ SetRun(r, [run[r] EXCEPT !.pc = "delete"])
    /\ UNCHANGED ingestVars
    /\ UNCHANGED <<env, voice_queries, voice_outcomes, EVAL_QUEUE, pendingPuts,
                   faultsInjected>>

\* INSERT OR REPLACE INTO voice_evaluations ... .run(); a row the table's
\* constraints reject makes run() reject, which the loop's catch handles.
Store(r) ==
    /\ run[r].pc = "store"
    /\ LET row == EvaluationRow(run[r].evaluation)
       IN  IF EvaluationRowAccepted(voice_queries, row)
           THEN /\ voice_evaluations' = InsertOrReplace(voice_evaluations, row)
                /\ SetRun(r, [run[r] EXCEPT !.pc = "delete"])
           ELSE /\ voice_evaluations' = voice_evaluations
                /\ SetRun(r, ItemCatch(run[r]))
    /\ UNCHANGED ingestVars
    /\ UNCHANGED <<env, voice_queries, voice_outcomes, EVAL_QUEUE, pendingPuts,
                   faultsInjected>>

StoreFails(r) ==
    /\ run[r].pc = "store"
    /\ Fault
    /\ SetRun(r, ItemCatch(run[r]))
    /\ UNCHANGED ingestVars
    /\ UNCHANGED <<env, voice_queries, voice_outcomes, voice_evaluations, EVAL_QUEUE,
                   pendingPuts>>

\* EVAL_QUEUE.delete(key.name)
Delete(r) ==
    /\ run[r].pc = "delete"
    /\ EVAL_QUEUE' = KVDelete(EVAL_QUEUE, Key(r))
    /\ SetRun(r, NextItem(run[r], "evaluated"))
    /\ UNCHANGED ingestVars
    /\ UNCHANGED <<env, voice_queries, voice_outcomes, voice_evaluations, pendingPuts,
                   faultsInjected>>

DeleteFails(r) ==
    /\ run[r].pc = "delete"
    /\ Fault
    /\ SetRun(r, ItemCatch(run[r]))
    /\ UNCHANGED ingestVars
    /\ UNCHANGED <<env, voice_queries, voice_outcomes, voice_evaluations, EVAL_QUEUE,
                   pendingPuts>>

RunStep(r, answers) ==
    \/ StartBatch(r)
    \/ Get(r)
    \/ ReadOutcome(r)
    \/ ReadContext(r)
    \/ \E resp \in answers : Fetch(r, resp)
    \/ Store(r)
    \/ Delete(r)

\* A store operation of the run rejects.
RunFault(r) ==
    \/ ListFails(r)
    \/ GetFails(r)
    \/ ReadOutcomeFails(r)
    \/ ReadContextFails(r)
    \/ StoreFails(r)
    \/ DeleteFails(r)

-----------------------------------------------------------------------------
(* The worker: concurrent ingestion requests and overlapping scheduled runs *)

\* Query events of the concurrent model, one per id: odd ids match no heuristic,
\* even ids have a very low transcription confidence.
QueryPayloads ==
    { IF id % 2 = 1
      THEN [type |-> "query", id |-> id, storeId |-> "s1", createdAt |-> 3600000,
            queryText |-> "hello", fastPath |-> TRUE]
      ELSE [type |-> "query", id |-> id, storeId |-> "s1", createdAt |-> 3600000,
            queryText |-> "hello", fastPath |-> FALSE, transcriptionConf |-> 30] : id \in QueryIds }

OutcomeEvents ==
    { [type |-> "outcome", queryId |-> id, latencyMs |-> 12000, actionSuccess |-> TRUE,
       errorFlag |-> FALSE] : id \in QueryIds }

MainLLMResponses ==
    { [fetch |-> "aborted"],
      Judgment([label |-> "GOOD", reason |-> "helpful_answer", confidence |-> 90]),
      Judgment([label |-> "MAYBE", reason |-> "unsure", confidence |-> 60]) }

Envs ==
    { [LOG_LEVEL |-> "info"],
      [LOG_LEVEL |-> "info", EVAL_BATCH_SIZE |-> <<"1">>, GEMINI_API_KEY |-> "key"] }

Init ==
    /\ env \in Envs
    /\ voice_queries = EmptyBag
    /\ voice_outcomes = EmptyBag
    /\ voice_evaluations = EmptyBag
    /\ EVAL_QUEUE = <<>>
    /\ pendingPuts = {}
    /\ run = [r \in Runs |-> IdleRun]
    /\ faultsInjected = 0
    /\ responses = {}
    /\ tasks = {}
    /\ llm_calls = EmptyBag
    /\ voice_stats_hourly = EmptyBag
    /\ llm_usage_hourly = EmptyBag
    /\ customer_insights = EmptyBag

\* updateHourlyStats, started by IngestQuery, writes only voice_stats_hourly,
\* which no step of the queue or of the classifier reads: here its tasks stay
\* pending, and SpecIngest explores their steps.
Next ==
    \/ \E payload \in QueryPayloads : IngestQuery(payload)
    \/ \E event \in pendingPuts : Enqueue(event)
    \/ \E name \in QueryIds : Expire(name)
    \/ \E event \in OutcomeEvents : IngestOutcome(event)
    \/ \E r \in Runs : RunStep(r, MainLLMResponses)

Spec == Init /\ [][Next]_vars

-----------------------------------------------------------------------------
(* One query through one run, over every heuristic input *)

HeuristicConfs == {0, 30, 49, 50, 79, 80, 95, 96, 100}
HeuristicTexts == {"", "hi", "hey", "hello"}

HeuristicPayloads ==
    LET Base == { [type |-> "query", id |-> 1, storeId |-> "s1", createdAt |-> 3600000,
                   queryText |-> t,
                   fastPath |-> f] : t \in HeuristicTexts, f \in BOOLEAN }
    IN  Base \cup { WithField(b, "transcriptionConf", c) : b \in Base, c \in HeuristicConfs }

HeuristicsNext ==
    \/ \E payload \in HeuristicPayloads : IngestQuery(payload)
    \/ \E event \in pendingPuts : Enqueue(event)
    \/ \E event \in OutcomeEvents : IngestOutcome(event)
    \/ \E task \in tasks : HourlyStep(task)
    \/ RunStep(1, MainLLMResponses)

SpecHeuristics == Init /\ [][HeuristicsNext]_vars

-----------------------------------------------------------------------------
(* One query through one run, over every outcome event *)

OutcomeLatencies == {0, 4999, 5000, 8000, 8001, 10000, 10001, 12000}

TierOutcomeEvents ==
    LET Base == { [type |-> "outcome", queryId |-> 1, latencyMs |-> l,
                   actionSuccess |-> s, errorFlag |-> e] :
                     l \in OutcomeLatencies, s \in BOOLEAN, e \in BOOLEAN }
    IN  Base \cup { WithField(b, "actionTaken", a) : b \in Base, a \in {"", "CART_ADD"} }

PlainPayload(id) ==
    [type |-> "query", id |-> id, storeId |-> "s1", createdAt |-> 3600000,
     queryText |-> "hello", fastPath |-> TRUE]

OutcomeNext ==
    \/ IngestQuery(PlainPayload(1))
    \/ \E event \in pendingPuts : Enqueue(event)
    \/ \E event \in TierOutcomeEvents : IngestOutcome(event)
    \/ \E task \in tasks : HourlyStep(task)
    \/ RunStep(1, MainLLMResponses)

SpecOutcome == Init /\ [][OutcomeNext]_vars

-----------------------------------------------------------------------------
(* One run alone, from any queue content, with store operations that may fail *)

BatchPayload(id, variant) ==
    CASE variant = 1 -> PlainPayload(id)
      [] variant = 2 -> [type |-> "query", id |-> id, storeId |-> "s1",
                         createdAt |-> 3600000, queryText |-> "hi",
                         fastPath |-> TRUE, transcriptionConf |-> 30]
      [] variant = 3 -> [type |-> "query", id |-> id, storeId |-> "s1",
                         createdAt |-> 3600000, queryText |-> "hi",
                         fastPath |-> TRUE]

BatchOutcome(id, variant) ==
    [type |-> "outcome", queryId |-> id, actionSuccess |-> TRUE, errorFlag |-> FALSE,
     latencyMs |-> IF variant = 1 THEN 12000 ELSE 6000]

BatchEnvs ==
    { [LOG_LEVEL |-> "info"],
      [LOG_LEVEL |-> "info", EVAL_BATCH_SIZE |-> <<>>, GEMINI_API_KEY |-> ""],
      [LOG_LEVEL |-> "info", EVAL_BATCH_SIZE |-> <<"1">>],
      [LOG_LEVEL |-> "info", EVAL_BATCH_SIZE |-> <<"2">>, GEMINI_API_KEY |-> "key"],
      [LOG_LEVEL |-> "info", GEMINI_API_KEY |-> "key"] }

\* The stores after the queries of `queued` were ingested and enqueued and some
\* of their outcomes ingested; no run has started.
BatchStores ==
    /\ \E queued \in SUBSET QueryIds :
         \E payload \in [queued -> 1..3], outcome \in [queued -> 0..2] :
            /\ EVAL_QUEUE = [id \in queued |->
                              [value |-> BatchPayload(id, payload[id]),
                               expirationTtl |-> 3600]]
            /\ voice_queries =
                 SetToBag({ QueryRow(BatchPayload(id, payload[id])) : id \in queued })
            /\ voice_outcomes =
                 SetToBag({ OutcomeRow(BatchOutcome(id, outcome[id])) :
                              id \in { i \in queued : outcome[i] # 0 } })
            /\ voice_stats_hourly =
                 SetToBag({ [store_id |-> "s1", hour_bucket |-> getHourBucket(3600000),
                             total_queries |-> Cardinality(queued),
                             successful_queries |-> 0, failed_queries |-> 0,
                             total_latency_ms |-> 0, total_cost_usd |-> 0,
                             unique_sessions |-> 0] : id \in queued })
    /\ voice_evaluations = EmptyBag
    /\ pendingPuts = {}
    /\ run = [r \in Runs |-> IdleRun]
    /\ faultsInjected = 0
    /\ responses = {}
    /\ tasks = {}
    /\ llm_calls = EmptyBag
    /\ llm_usage_hourly = EmptyBag
    /\ customer_insights = EmptyBag

BatchInit ==
    /\ env \in BatchEnvs
    /\ BatchStores

BatchNext ==
    \/ RunStep(1, LLMResponses)
    \/ RunFault(1)

SpecBatch == BatchInit /\ [][BatchNext]_vars

\* Every step of evaluateBatch is an awaited operation that settles (the store
\* operations resolve or reject, fetch resolves or is aborted after 10 s), so a
\* started run goes on, and the cron trigger starts the next run.  The queues
\* are those of BatchInit whose queries have no outcome yet.
FairBatchInit ==
    /\ BatchStores
    /\ voice_outcomes = EmptyBag
    /\ env \in { [LOG_LEVEL |-> "info", EVAL_BATCH_SIZE |-> <<"1">>],
                 [LOG_LEVEL |-> "info", EVAL_BATCH_SIZE |-> <<"1">>, GEMINI_API_KEY |-> "key"],
                 [LOG_LEVEL |-> "info", GEMINI_API_KEY |-> "key"] }

SpecBatchFair == FairBatchInit /\ [][BatchNext]_vars /\ WF_vars(BatchNext)

-----------------------------------------------------------------------------
(* The gateway alone: concurrent requests, their detached tasks, and store *)
(* operations that may fail                                                *)

IngestQueries ==
    { PlainPayload(1),
      WithField(PlainPayload(2), "sessionId", "a"),
      [type |-> "query", id |-> 1, createdAt |-> 3600000, queryText |-> "hello",
       fastPath |-> TRUE] }                                        \* no storeId

IngestOutcomes ==
    { [type |-> "outcome", queryId |-> 1, latencyMs |-> l, actionSuccess |-> TRUE,
       errorFlag |-> FALSE] : l \in {100, 12000} }

LLMCallPayload(id, latencyMs) ==
    [type |-> "llm_call", callId |-> id, customerId |-> "c1", timestamp |-> 3600000,
     modelName |-> "gemini", provider |-> "google", tokensPrompt |-> 10,
     tokensCompletion |-> 5, latencyMs |-> latencyMs, costUsd |-> 2]

IngestLLMCalls == { LLMCallPayload(1, 100), LLMCallPayload(2, 300) }

\* The request body of the API documentation and of the test script.
DocumentedQuery ==
    [event_type |-> "voice_query", timestamp |-> "2025-07-25T12:00:00.000Z",
     query_id |-> "query_123", store_id |-> "store_456", session_id |-> "session_789",
     user_id |-> "user_abc", query_text |-> "search for red shoes",
     query_source |-> "voice"]

IngestOthers == { [type |-> "purchase"], [storeId |-> "s1"], DocumentedQuery }

IngestUnparsable == { null, [body |-> "not_json"] }

\* The gateway has not yet answered MaxRequests requests; a request that would
\* be answered as the same request was before is not sent again.
Receiving == Cardinality(responses) < MaxRequests

IngestInit ==
    /\ Init
    /\ env = [LOG_LEVEL |-> "info"]

IngestNext ==
    \/ /\ Receiving
       /\ \/ \E payload \in IngestQueries :
                IngestQuery(payload) \/ IngestQueryFails(payload)
          \/ \E event \in IngestOutcomes :
                IngestOutcome(event) \/ IngestOutcomeFails(event)
          \/ \E payload \in IngestLLMCalls :
                IngestLLMCall(payload) \/ IngestLLMCallFails(payload)
          \/ \E payload \in IngestOthers : IngestUnknown(payload)
          \/ \E request \in IngestUnparsable : IngestUnparsed(request)
       /\ responses' # responses
    \/ \E event \in pendingPuts : Enqueue(event) \/ EnqueueFails(event)
    \/ \E task \in tasks : HourlyStep(task) \/ LLMCallStep(task) \/ TaskFails(task)

SpecIngest == IngestInit /\ [][IngestNext]_vars

\* A promise handed to ctx.waitUntil is run until it settles: a pending put
\* or update is not left waiting for ever. Requests come as the callers
\* please.
SideEffectsSettle ==
    /\ WF_vars(\E event \in pendingPuts : Enqueue(event) \/ EnqueueFails(event))
    /\ WF_vars(\E task \in tasks :
                  HourlyStep(task) \/ LLMCallStep(task) \/ TaskFails(task))

SpecIngestFair == SpecIngest /\ SideEffectsSettle

-----------------------------------------------------------------------------
(* Query events one after another: the put and the hourly update of one *)
(* end before the next request                                          *)

HourlyStores == {"s1", "s2"}

HourlyTimes == {3600000, 7199999, 7200000}

HourlySessionIds == {"a", "b"}

\* The query events the next request may carry; ids are given in sequence.
HourlyPayloads ==
    LET Base == { [type |-> "query", id |-> BagCardinality(voice_queries) + 1,
                   storeId |-> store, createdAt |-> t, queryText |-> "hello",
                   fastPath |-> TRUE] : store \in HourlyStores, t \in HourlyTimes }
    IN  Base \cup { WithField(b, "sessionId", session) :
                       b \in Base, session \in HourlySessionIds }

HourlyNext ==
    \/ /\ Receiving
       /\ tasks = {}
       /\ pendingPuts = {}
       /\ \E payload \in HourlyPayloads : IngestQuery(payload)
    \/ \E event \in pendingPuts : Enqueue(event)
    \/ \E task \in tasks : HourlyStep(task)

SpecHourly == IngestInit /\ [][HourlyNext]_vars

-----------------------------------------------------------------------------
(* llm_call events one after another: the updates of one end before the *)
(* next request                                                         *)

InsightCustomers == {"c1", "c2"}

InsightLatencies == {100, 300}

InsightCosts == {1, 3}

\* The llm_call events a request may carry; callId is left to generateULID.
InsightPayloads ==
    LET Base == { [type |-> "llm_call", timestamp |-> 3600000, modelName |-> "gemini",
                   provider |-> "google", tokensPrompt |-> 10, tokensCompletion |-> 5,
                   latencyMs |-> l, costUsd |-> c] :
                     l \in InsightLatencies, c \in InsightCosts }
    IN  { WithField(b, "customerId", customer) : b \in Base, customer \in InsightCustomers }
        \cup { b \in Base : b.latencyMs = 100 /\ b.costUsd = 1 }

InsightsNext ==
    \/ /\ BagCardinality(llm_calls) < MaxRequests
       /\ tasks = {}
       /\ \E payload \in InsightPayloads : IngestLLMCall(payload)
    \/ \E task \in tasks : LLMCallStep(task)

SpecInsights == IngestInit /\ [][InsightsNext]_vars

-----------------------------------------------------------------------------
(* llm_call events of several models, providers and hours, one after another *)

UsageTimes == {3600000, 7199999, 7200000}

UsageModels ==
    { [modelName |-> "gemini", provider |-> "google"],
      [modelName |-> "gemini", provider |-> "proxy"],
      [modelName |-> "gpt", provider |-> "openai"] }

\* A call that succeeded, one that failed, and one with an empty errorMessage.
UsageCalls ==
    { [tokensPrompt |-> 10, tokensCompletion |-> 5, latencyMs |-> 100, costUsd |-> 1],
      [tokensPrompt |-> 7, tokensCompletion |-> 0, latencyMs |-> 300, costUsd |-> 0,
       errorMessage |-> "timeout"],
      [tokensPrompt |-> 2, tokensCompletion |-> 3, latencyMs |-> 200, costUsd |-> 3,
       errorMessage |-> ""] }

\* The llm_call events the next request may carry: callIds in sequence, no
\* customerId.
UsagePayloads ==
    { [f \in {"type", "callId", "timestamp"} \cup DOMAIN model \cup DOMAIN call |->
         IF f = "type" THEN "llm_call"
         ELSE IF f = "callId" THEN BagCardinality(llm_calls) + 1
         ELSE IF f = "timestamp" THEN t
         ELSE IF f \in DOMAIN model THEN model[f] ELSE call[f]] :
        t \in UsageTimes, model \in UsageModels, call \in UsageCalls }

UsageNext ==
    \/ /\ BagCardinality(llm_calls) < MaxRequests
       /\ tasks = {}
       /\ \E payload \in UsagePayloads : IngestLLMCall(payload)
    \/ \E task \in tasks : UsageUpdate(task)
    \/ \E task \in tasks : UsageInsert(task)

SpecUsage == IngestInit /\ [][UsageNext]_vars

-----------------------------------------------------------------------------
(* llm_call events one after another, for customers some of whom already *)
(* have a row carrying a satisfaction score and preferred topics         *)

\* A row of customer_insights whose satisfaction_score and preferred_topics
\* were set: two interactions, total cost 4, average latency 150 ms.
ScoredRow(customer) ==
    [customer_id |-> customer, total_interactions |-> 2, total_cost_usd |-> 4,
     avg_latency_ms |-> Fraction(150, 1), preferred_topics |-> "[\"shoes\"]",
     satisfaction_score |-> 80, last_active |-> 1800000]

ProfileInit ==
    /\ env = [LOG_LEVEL |-> "info"]
    /\ voice_queries = EmptyBag
    /\ voice_outcomes = EmptyBag
    /\ voice_evaluations = EmptyBag
    /\ EVAL_QUEUE = <<>>
    /\ pendingPuts = {}
    /\ run = [r \in Runs |-> IdleRun]
    /\ faultsInjected = 0
    /\ responses = {}
    /\ tasks = {}
    /\ llm_calls = EmptyBag
    /\ voice_stats_hourly = EmptyBag
    /\ llm_usage_hourly = EmptyBag
    /\ \E scored \in SUBSET InsightCustomers :
         customer_insights = SetToBag({ ScoredRow(customer) : customer \in scored })

SpecProfile == ProfileInit /\ [][InsightsNext]_vars

-----------------------------------------------------------------------------
(* Concurrent llm_call events of one customer, one model and one hour, sent *)
(* through two providers: their detached updates interleave               *)

\* The provider a call goes through and the latency it had.
RaceCalls ==
    { [provider |-> "google", latencyMs |-> 100],
      [provider |-> "proxy", latencyMs |-> 300] }

\* The llm_call events the next request may carry: callIds in sequence.
RacePayloads ==
    { [type |-> "llm_call", callId |-> BagCardinality(llm_calls) + 1, customerId |-> "c1",
       timestamp |-> 3600000, modelName |-> "gemini", provider |-> call.provider,
       tokensPrompt |-> 10, tokensCompletion |-> 5, latencyMs |-> call.latencyMs,
       costUsd |-> 2] : call \in RaceCalls }

RaceNext ==
    \/ /\ BagCardinality(llm_calls) < MaxRequests
       /\ \E payload \in RacePayloads : IngestLLMCall(payload)
    \/ \E task \in tasks : LLMCallStep(task)

SpecRace == IngestInit /\ [][RaceNext]_vars

-----------------------------------------------------------------------------
(* One run over queued items some of which a reviewer has already labelled *)

\* A row of voice_evaluations with evaluated_by 'human'.
HumanRow(id) ==
    [query_id |-> id, label |-> "GOOD", reason |-> "manual_review",
     confidence_score |-> 100, evaluated_by |-> "human"]

\* Queries ingested and enqueued, no run started; some have a human result.
ReviewInit ==
    /\ env \in Envs
    /\ \E queued \in SUBSET QueryIds :
         /\ EVAL_QUEUE = [id \in queued |->
                            [value |-> PlainPayload(id), expirationTtl |-> 3600]]
         /\ voice_queries = SetToBag({ QueryRow(PlainPayload(id)) : id \in queued })
         /\ voice_stats_hourly =
              SetToBag({ [store_id |-> "s1", hour_bucket |-> getHourBucket(3600000),
                          total_queries |-> Cardinality(queued),
                          successful_queries |-> 0, failed_queries |-> 0,
                          total_latency_ms |-> 0, total_cost_usd |-> 0,
                          unique_sessions |-> 0] : id \in queued })
         /\ \E reviewed \in SUBSET queued :
              voice_evaluations = SetToBag({ HumanRow(id) : id \in reviewed })
    /\ voice_outcomes = EmptyBag
    /\ pendingPuts = {}
    /\ run = [r \in Runs |-> IdleRun]
    /\ faultsInjected = 0
    /\ responses = {}
    /\ tasks = {}
    /\ llm_calls = EmptyBag
    /\ llm_usage_hourly = EmptyBag
    /\ customer_insights = EmptyBag

ReviewNext ==
    \/ \E event \in OutcomeEvents : IngestOutcome(event)
    \/ RunStep(1, MainLLMResponses)

SpecReview == ReviewInit /\ [][ReviewNext]_vars

-----------------------------------------------------------------------------
(* Claims *)

RowsOf(id) == BagCardinality(RowsWith(voice_evaluations, id))

\* C1: in every reachable state, also while two overlapping runs have both
\* classified the same queue item and neither has deleted it yet,
\* voice_evaluations holds at most one row per query id.
C1_OneRowPerQuery == \A id \in QueryIds : RowsOf(id) <= 1

\* Both runs have written their result for the same key; neither has deleted it.
C1_BothWroteSameItem ==
    /\ run[1].pc = "delete"
    /\ run[2].pc = "delete"
    /\ Key(1) = Key(2)
    /\ Key(1) \in DOMAIN EVAL_QUEUE
    /\ RowsOf(Key(1)) = 1

\* C2: when a run that ran alone has completed, the number of items left in the
\* queue is max(0, initialCount - batchSize), whatever the queue held and
\* whatever batch size is configured (no store operation having failed).
C2_DrainCount ==
    (run[1].pc = "done" /\ faultsInjected = 0)
        => Cardinality(DOMAIN EVAL_QUEUE) = Max(0, run[1].initialCount - BatchSize(env))

\* The run holds an item it has read from the queue.
Holds(r) == run[r].queryData # null

\* The run has written exactly this verdict for the item it holds.
Stored(r, verdict) ==
    RowsWith(voice_evaluations, run[r].queryData.id) =
        SetToBag({ [query_id |-> run[r].queryData.id, label |-> verdict.label,
                    reason |-> verdict.reason, confidence_score |-> verdict.confidenceScore,
                    evaluated_by |-> "auto"] })

\* The run is about to write, or has written, this verdict for the item it holds.
Decided(r, verdict) ==
    /\ run[r].pc \in {"store", "delete"}
    /\ run[r].evaluation =
         [queryId |-> run[r].queryData.id, label |-> verdict.label,
          reason |-> verdict.reason, confidenceScore |-> verdict.confidenceScore,
          evaluatedBy |-> "auto"]
    /\ run[r].pc = "delete" => Stored(r, verdict)

VeryLowConfidence(q) == Has(q, "transcriptionConf") /\ q.transcriptionConf < 50

\* C3: an item whose transcription confidence is present and below 0.5 is
\* labelled BAD / very_low_transcription_confidence / 0.9 and stored so, whatever
\* outcome exists and whether or not a credential is configured; the run neither
\* reads the outcome store nor calls the quality model for it.
C3_VeryLowConfidenceIsBad ==
    \A r \in Runs :
        (Holds(r) /\ VeryLowConfidence(run[r].queryData)) =>
            /\ Decided(r, [label |-> "BAD", reason |-> "very_low_transcription_confidence",
                           confidenceScore |-> 90])
            /\ run[r].outcome = null
            /\ run[r].response = null

\* Such an item, short and on the fast path, stored while its outcome exists
\* and a credential is configured.
C3_LowConfidenceStored ==
    /\ Holds(1)
    /\ VeryLowConfidence(run[1].queryData)
    /\ run[1].queryData.queryText = "hi"
    /\ run[1].pc = "delete"
    /\ HasCredential(env)
    /\ RowsWith(voice_outcomes, run[1].queryData.id) # EmptyBag

\* The ordered table of the heuristic tier, as a list of (condition, verdict).
C4_Rules(q) ==
    << [when |-> Has(q, "transcriptionConf") /\ q.transcriptionConf < 50,
        then |-> [label |-> "BAD", reason |-> "very_low_transcription_confidence",
                  confidenceScore |-> 90]],
       [when |-> Len(q.queryText) < 3,
        then |-> [label |-> "BAD", reason |-> "query_too_short", confidenceScore |-> 90]],
       [when |-> Has(q, "transcriptionConf") /\ q.transcriptionConf < 80,
        then |-> [label |-> "REVIEW", reason |-> "low_transcription_confidence",
                  confidenceScore |-> 70]],
       [when |-> q.fastPath /\ Has(q, "transcriptionConf") /\ q.transcriptionConf > 95,
        then |-> [label |-> "GOOD", reason |-> "high_confidence_fast_path",
                  confidenceScore |-> 80]] >>

C4_Matches(q) == { i \in 1..4 : C4_Rules(q)[i].when }

C4_First(q) == CHOOSE i \in C4_Matches(q) : \A j \in C4_Matches(q) : i <= j

HeuristicReasons ==
    { "very_low_transcription_confidence", "query_too_short",
      "low_transcription_confidence", "high_confidence_fast_path" }

\* C4: the heuristic tier gives the first matching row of the table, for every
\* confidence (absent, or a value, the thresholds 0.5, 0.8 and 0.95 included),
\* text length and fastPath; with no matching row it gives nothing and the run
\* goes on to the outcome tier.  The verdict depends on the queued event only.
C4_HeuristicTable ==
    \A r \in Runs :
        Holds(r) =>
            IF C4_Matches(run[r].queryData) # {}
            THEN Decided(r, C4_Rules(run[r].queryData)[C4_First(run[r].queryData)].then)
            ELSE \/ run[r].pc \in {"outcome", "llm_context", "llm_fetch"}
                 \/ /\ run[r].pc \in {"store", "delete"}
                    /\ run[r].evaluation.reason \notin HeuristicReasons

\* Confidence exactly 0.5 with a three-character text is REVIEW, not BAD.
C4_BoundaryCases ==
    /\ Holds(1)
    /\ Has(run[1].queryData, "transcriptionConf")
    /\ run[1].queryData.transcriptionConf = 50
    /\ run[1].queryData.queryText = "hey"
    /\ run[1].pc = "delete"
    /\ run[1].evaluation.reason = "low_transcription_confidence"

C6_Scenario ==
    [type |-> "query", id |-> 1, storeId |-> "s1", createdAt |-> 3600000,
     queryText |-> "hi", fastPath |-> TRUE]

C6_Setting(r) ==
    /\ run[r].queryData = C6_Scenario
    /\ ~ Has(env, "GEMINI_API_KEY")
    /\ voice_outcomes = EmptyBag

\* C6 as stated: for the event {storeId s1, queryText "hi", fastPath true, no
\* confidence}, with no outcome and no credential, no heuristic matches and the
\* classifier stores REVIEW / no_evaluation_criteria_met.
C6_Original ==
    \A r \in Runs :
        (C6_Setting(r) /\ run[r].pc \in {"store", "delete"}) =>
            /\ run[r].evaluation.label = "REVIEW"
            /\ run[r].evaluation.reason = "no_evaluation_criteria_met"

\* C6 amended: for that event, with no outcome and no credential, the heuristic
\* tier matches its rule on texts shorter than 3 characters and the classifier
\* stores BAD / query_too_short / 0.9; no later tier is consulted.
C6_TooShortScenario ==
    \A r \in Runs :
        C6_Setting(r) =>
            /\ Decided(r, [label |-> "BAD", reason |-> "query_too_short",
                           confidenceScore |-> 90])
            /\ run[r].outcome = null
            /\ run[r].response = null

C6_ScenarioStored ==
    /\ C6_Setting(1)
    /\ run[1].pc = "delete"
    /\ Stored(1, [label |-> "BAD", reason |-> "query_too_short", confidenceScore |-> 90])

\* The ordered table of the outcome tier over the OutcomeEvent, as a list of
\* (condition, verdict).
C5_Rules(e) ==
    << [when |-> e.errorFlag,
        then |-> [label |-> "BAD", reason |-> "error_occurred", confidenceScore |-> 95]],
       [when |-> e.latencyMs > 10000,
        then |-> [label |-> "BAD", reason |-> "extreme_latency", confidenceScore |-> 90]],
       [when |-> e.latencyMs > 8000,
        then |-> [label |-> "REVIEW", reason |-> "high_latency", confidenceScore |-> 80]],
       [when |-> ~e.actionSuccess /\ Has(e, "actionTaken") /\ e.actionTaken # "",
        then |-> [label |-> "REVIEW", reason |-> "action_failed", confidenceScore |-> 80]],
       [when |-> e.actionSuccess /\ e.latencyMs < 5000,
        then |-> [label |-> "GOOD", reason |-> "successful_fast_action",
                  confidenceScore |-> 85]] >>

C5_Matches(e) == { i \in 1..5 : C5_Rules(e)[i].when }

C5_First(e) == CHOOSE i \in C5_Matches(e) : \A j \in C5_Matches(e) : i <= j

OutcomeReasons ==
    { "error_occurred", "extreme_latency", "high_latency", "action_failed",
      "successful_fast_action" }

\* The run went past every rule-based tier without a verdict of this tier set.
Undecided(r, reasons) ==
    \/ run[r].pc \in {"llm_context", "llm_fetch"}
    \/ /\ run[r].pc \in {"store", "delete"}
       /\ Has(run[r].evaluation, "reason") => run[r].evaluation.reason \notin reasons

C7_CompletedIsStoredAndDeleted ==
    \A r \in Runs :
        faultsInjected = 0 =>
            \A i \in DOMAIN run[r].log :
                /\ run[r].log[i].status = "evaluated"
                /\ run[r].keys[i] \notin DOMAIN EVAL_QUEUE

\* C8: an item whose processing throws stays in the queue, the loop goes on
\* with the next listed key until every listed key had its iteration, and the
\* run fails only when the listing itself fails, before any item.
C8_FailedItemKept ==
    \A r \in Runs :
        /\ Len(run[r].log) = run[r].idx - 1
        /\ run[r].pc = "done" => Len(run[r].log) = Len(run[r].keys)
        /\ run[r].pc = "failed" => (run[r].keys = <<>> /\ run[r].log = <<>>)
        /\ \A i \in DOMAIN run[r].log :
             run[r].log[i].status = "failed" => run[r].keys[i] \in DOMAIN EVAL_QUEUE

\* A run of two keys is done: the first item threw and is still queued, the
\* second was evaluated and deleted.
C8_FailedThenEvaluated ==
    /\ run[1].pc = "done"
    /\ Len(run[1].log) = 2
    /\ run[1].log[1].status = "failed"
    /\ run[1].log[2].status = "evaluated"
    /\ run[1].keys[1] \in DOMAIN EVAL_QUEUE
    /\ run[1].keys[2] \notin DOMAIN EVAL_QUEUE

\* The failed calls of the quality model: timeout or network error, non-2xx
\* status, and bodies that are not the expected JSON.
C9_FailedCalls ==
    { [fetch |-> "aborted"],
      [fetch |-> "response", ok |-> FALSE],
      [fetch |-> "response", ok |-> TRUE, body |-> "not_json"],
      [fetch |-> "response", ok |-> TRUE, body |-> "no_candidates"],
      [fetch |-> "response", ok |-> TRUE, body |-> "text_not_json"],
      [fetch |-> "response", ok |-> TRUE, body |-> "judgment", evaluation |-> null] }

C9_Fallback ==
    [label |-> "REVIEW", reason |-> "llm_evaluation_failed", confidenceScore |-> 50]

\* C9: a quality-model call that times out, answers non-2xx or answers a
\* malformed body ends with REVIEW / llm_evaluation_failed / 0.5: that verdict
\* is what the run writes, and when no store operation fails the iteration ends
\* evaluated with the row stored and the item out of the queue.
C9_ModelFailureFallback ==
    \A r \in Runs :
        /\ (Holds(r) /\ run[r].response \in C9_FailedCalls) => Decided(r, C9_Fallback)
        /\ \A i \in DOMAIN run[r].log :
             (run[r].log[i].response \in C9_FailedCalls /\ faultsInjected = 0) =>
                /\ run[r].log[i].status = "evaluated"
                /\ run[r].keys[i] \notin DOMAIN EVAL_QUEUE
                /\ RowsWith(voice_evaluations, run[r].keys[i]) =
                     SetToBag({ [query_id |-> run[r].keys[i], label |-> "REVIEW",
                                 reason |-> "llm_evaluation_failed",
                                 confidence_score |-> 50, evaluated_by |-> "auto"] })

\* The call timed out; the iteration ended evaluated with the fallback stored.
C9_FallbackStored ==
    /\ Len(run[1].log) >= 1
    /\ run[1].log[1].response = [fetch |-> "aborted"]
    /\ run[1].log[1].status = "evaluated"
    /\ run[1].keys[1] \notin DOMAIN EVAL_QUEUE
    /\ \E row \in BagToSet(RowsWith(voice_evaluations, run[1].keys[1])) :
         row.reason = "llm_evaluation_failed"

C10_Credential == Has(env, "GEMINI_API_KEY") /\ env.GEMINI_API_KEY # ""

C10_Default ==
    [label |-> "REVIEW", reason |-> "no_evaluation_criteria_met", confidenceScore |-> 50]

\* The outcome tier gave nothing for the item the run holds: no outcome row was
\* read, or the row read matches no rule of the outcome table.
C10_NoOutcomeMatch(r) ==
    \/ run[r].outcome = null
    \/ \A id \in QueryIds, v \in 1..2 :
         OutcomeRow(BatchOutcome(id, v)) = run[r].outcome =>
            C5_Matches(BatchOutcome(id, v)) = {}

\* C10: without a credential, an item no heuristic and no outcome rule matched
\* is stored as REVIEW / no_evaluation_criteria_met / 0.5; with a credential no
\* run produces that verdict and no stored row carries it.
C10_DefaultWithoutCredential ==
    /\ \A r \in Runs :
         (/\ ~C10_Credential
          /\ Holds(r)
          /\ run[r].pc \in {"store", "delete"}
          /\ C4_Matches(run[r].queryData) = {}
          /\ C10_NoOutcomeMatch(r)) => Decided(r, C10_Default)
    /\ C10_Credential =>
         /\ \A r \in Runs :
              (run[r].evaluation # null /\ Has(run[r].evaluation, "reason")) =>
                  run[r].evaluation.reason # "no_evaluation_criteria_met"
         /\ \A row \in BagToSet(voice_evaluations) :
              row.reason # "no_evaluation_criteria_met"

\* No credential, an outcome that matches no rule was read, the default is stored.
C10_DefaultStored ==
    /\ ~C10_Credential
    /\ Holds(1)
    /\ run[1].pc = "delete"
    /\ run[1].outcome # null
    /\ Stored(1, C10_Default)

\* The responses returned by the step.
Returned == responses' \ responses

QueryPersisted(event) == \E row \in DOMAIN voice_queries : row.id = event.id

\* C11: a query event is in voice_queries when its 200 is returned and when
\* its put and its hourly-stat update exist or have had effect; the step that
\* answers a query request with 500 leaves voice_queries, the queue, the
\* started puts and tasks and voice_stats_hourly as they were.
C11_PersistFirst ==
    /\ [](/\ \A resp \in responses :
               (resp.status = 200 /\ resp.request.type = "query") =>
                   QueryRow(resp.request) \in DOMAIN voice_queries
          /\ \A event \in pendingPuts : QueryPersisted(event)
          /\ \A name \in DOMAIN EVAL_QUEUE : QueryPersisted(EVAL_QUEUE[name].value)
          /\ \A task \in tasks : task.kind = "hourly" => QueryPersisted(task.event)
          /\ \A stat \in DOMAIN voice_stats_hourly :
               \E row \in DOMAIN voice_queries :
                   /\ row.store_id = stat.store_id
                   /\ (row.created_at \div 3600000) * 3600 = stat.hour_bucket)
    /\ [][\A resp \in Returned :
             (resp.status = 500 /\ resp.request \in IngestQueries) =>
                 UNCHANGED <<voice_queries, EVAL_QUEUE, pendingPuts, tasks,
                             voice_stats_hourly>>]_vars

\* A query was stored, queued and counted; the same id sent again got 500 and
\* the queue entry and the count are those of the first.
C11_DuplicateRejected ==
    /\ [request |-> PlainPayload(1), status |-> 200] \in responses
    /\ [request |-> PlainPayload(1), status |-> 500] \in responses
    /\ faultsInjected = 0
    /\ DOMAIN EVAL_QUEUE = {1}
    /\ pendingPuts = {}
    /\ tasks = {}
    /\ \E stat \in DOMAIN voice_stats_hourly : stat.total_queries = 1
    /\ BagCardinality(voice_queries) = 1

\* The first statements of the tasks the handlers start.
StartedTasks ==
    { task \in tasks' \ tasks :
        \/ task.kind \in {"hourly", "usage"} /\ task.pc = "update"
        \/ task.kind = "insights" /\ task.pc = "select" }

\* C12: the step that stores a query or llm_call event returns its 200 and
\* only starts the side-effects; no later step, whether a side-effect succeeds
\* or fails, returns or withdraws a response; a side-effect that fails ends,
\* and puts and tasks are started only by the step that stores their event, so
\* none is started a second time.
C12_SideEffectsDetached ==
    [][/\ responses \subseteq responses'
       /\ (voice_queries' # voice_queries \/ llm_calls' # llm_calls) =>
              \E resp \in Returned : resp.status = 200
       /\ Returned = {} =>
              /\ UNCHANGED <<voice_queries, llm_calls>>
              /\ pendingPuts' \subseteq pendingPuts
              /\ StartedTasks = {}
              /\ faultsInjected' # faultsInjected =>
                    /\ tasks' \subseteq tasks
                    /\ pendingPuts' # pendingPuts \/ tasks' # tasks
       /\ \A event \in pendingPuts' \ pendingPuts :
              ~QueryPersisted(event) /\ QueryRow(event) \in DOMAIN voice_queries'
       /\ \A task \in StartedTasks :
              IF task.kind = "hourly"
              THEN ~QueryPersisted(task.event)
              ELSE LLMCallRow(task.event) \notin DOMAIN llm_calls
      ]_vars

\* The query got its 200; its put failed, so nothing is queued or pending.
C12_PutFailedStill200 ==
    /\ [request |-> PlainPayload(1), status |-> 200] \in responses
    /\ faultsInjected = 1
    /\ 1 \notin DOMAIN EVAL_QUEUE
    /\ pendingPuts = {}
    /\ tasks = {}
    /\ \E stat \in DOMAIN voice_stats_hourly : stat.total_queries = 1

KnownTypes == {"query", "outcome", "llm_call"}

UnknownType(request) ==
    /\ request # null
    /\ ~Has(request, "body")
    /\ IF Has(request, "type") THEN request.type \notin KnownTypes ELSE TRUE

\* C13: a request is answered 200 exactly when the step stored its event, 400
\* exactly when its type is none of query, outcome, llm_call, and then nothing
\* else changes, and 500 otherwise, nothing being stored.
C13_StatusCodes ==
    [][\A resp \in Returned :
          /\ resp.status \in {200, 400, 500}
          /\ resp.status = 200 <=>
                \/ voice_queries' # voice_queries
                \/ voice_outcomes' # voice_outcomes
                \/ llm_calls' # llm_calls
          /\ resp.status = 400 <=> UnknownType(resp.request)
          /\ resp.status = 400 =>
                UNCHANGED <<voice_queries, voice_outcomes, llm_calls, EVAL_QUEUE,
                            pendingPuts, tasks, voice_stats_hourly, llm_usage_hourly,
                            customer_insights>>
      ]_vars

\* One request of each kind has been answered.
C13_AllThreeStatuses ==
    /\ [request |-> PlainPayload(1), status |-> 200] \in responses
    /\ [request |-> PlainPayload(1), status |-> 500] \in responses
    /\ [request |-> [type |-> "purchase"], status |-> 400] \in responses
    /\ faultsInjected = 0

\* A request is malformed: its body is not a JSON object, or a required field
\* of its type is missing.
Malformed(request) ==
    \/ request = null
    \/ Has(request, "body")
    \/ /\ Has(request, "type")
       /\ request.type = "query"
       /\ ~({"storeId", "createdAt", "queryText", "fastPath"} \subseteq DOMAIN request)

\* C14 as stated: every malformed request and every request of an unknown
\* type is answered 4xx.
C14_MalformedIsClientError ==
    \A resp \in responses :
        (Malformed(resp.request) \/ UnknownType(resp.request)) =>
            (resp.status >= 400 /\ resp.status <= 499)

\* C15: voice_outcomes never holds two rows for one queryId; an outcome for a
\* queryId that has a row is answered with an error and voice_outcomes stays
\* as it was.
C15_OneOutcomePerQuery ==
    /\ [](\A id \in QueryIds : BagCardinality(RowsWith(voice_outcomes, id)) <= 1)
    /\ [][\A resp \in Returned :
             (/\ resp.request \in IngestOutcomes
              /\ RowsWith(voice_outcomes, resp.request.queryId) # EmptyBag) =>
                 (resp.status = 500 /\ UNCHANGED voice_outcomes)]_vars

\* The first outcome of query 1 is stored; the second, different one was
\* answered 500 and the first is still the stored one.
C15_SecondOutcomeRejected ==
    /\ \E first, second \in IngestOutcomes :
         /\ first # second
         /\ [request |-> first, status |-> 200] \in responses
         /\ [request |-> second, status |-> 500] \in responses
         /\ voice_outcomes = SetToBag({OutcomeRow(first)})
    /\ faultsInjected = 0

\* The voice_queries rows of a store whose created_at lies in the hour that
\* starts at bucket (epoch seconds).
QueriesInBucket(store, bucket) ==
    { q \in DOMAIN voice_queries :
        /\ q.store_id = store
        /\ bucket * 1000 <= q.created_at
        /\ q.created_at < (bucket + 3600) * 1000 }

HourlyBuckets == {3600, 7200}

\* C16: with query events ingested one after another, whenever no hourly
\* update is in progress each (store, hour) has total_queries equal to the
\* number N of query events ingested for it: no row for N = 0, and one row
\* holding N from the first event on.
C16_TotalQueriesIsN ==
    tasks = {} =>
        \A store \in HourlyStores, bucket \in HourlyBuckets :
            LET N == Cardinality(QueriesInBucket(store, bucket))
                stats == { row \in DOMAIN voice_stats_hourly :
                             row.store_id = store /\ row.hour_bucket = bucket }
            IN  /\ N = 0 => stats = {}
                /\ N >= 1 => /\ Cardinality(stats) = 1
                             /\ \A row \in stats :
                                  /\ row.total_queries = N
                                  /\ voice_stats_hourly[row] = 1

\* Three events of one store and hour, the first and last millisecond of the
\* hour included, are counted 3.
C16_ThreeCounted ==
    /\ tasks = {}
    /\ \E row \in DOMAIN voice_stats_hourly :
         /\ row.store_id = "s1"
         /\ row.hour_bucket = 3600
         /\ row.total_queries = 3
    /\ {q.created_at : q \in QueriesInBucket("s1", 3600)} = {3600000, 7199999}

RECURSIVE SumOf(_, _)
SumOf(rows, field) ==
    IF rows = {} THEN 0
    ELSE LET row == CHOOSE r \in rows : TRUE
         IN  row[field] + SumOf(rows \ {row}, field)

CallsOf(customer) ==
    { call \in DOMAIN llm_calls : Has(call, "customer_id") /\ call.customer_id = customer }

\* C17: with llm_call events applied one after another, whenever no update is
\* in progress the row of a customer with N >= 1 events has totalInteractions
\* N, total cost the sum of their costs and avgLatencyMs the arithmetic mean of
\* their latencies (as an exact fraction: avg * N = sum of the latencies).
C17_InsightIsMean ==
    tasks = {} =>
        \A customer \in InsightCustomers :
            LET calls == CallsOf(customer)
                N == Cardinality(calls)
                rows == { row \in DOMAIN customer_insights : row.customer_id = customer }
            IN  /\ N = 0 => rows = {}
                /\ N >= 1 =>
                     /\ Cardinality(rows) = 1
                     /\ \A row \in rows :
                          /\ row.total_interactions = N
                          /\ row.total_cost_usd = SumOf(calls, "cost_usd")
                          /\ row.avg_latency_ms.num * N =
                               row.avg_latency_ms.den * SumOf(calls, "latency_ms")

\* Latencies 100 and 300 for one customer: totalInteractions 2, avgLatencyMs 200.
C17_TwoCallsAverage200 ==
    /\ tasks = {}
    /\ {call.latency_ms : call \in CallsOf("c1")} = {100, 300}
    /\ \E row \in DOMAIN customer_insights :
         /\ row.customer_id = "c1"
         /\ row.total_interactions = 2
         /\ row.avg_latency_ms = [num |-> 200, den |-> 1]

\* No run holds the item: none has read it and not yet finished with it.
NoRunHolds(id) ==
    \A r \in Runs : run[r].queryData = null \/ run[r].queryData.id # id

\* The query was stored, its put has settled, its entry is gone and no result
\* was written for it.
Dropped(id) ==
    /\ \E row \in DOMAIN voice_queries : row.id = id
    /\ \A event \in pendingPuts : event.id # id
    /\ id \notin DOMAIN EVAL_QUEUE
    /\ RowsOf(id) = 0
    /\ NoRunHolds(id)

\* C18: every queue entry is written with a time to live of 3600 s; once an
\* entry is gone with no run having read it, its query stays without an
\* EvaluationResult and is never put into the queue again.
C18_ExpiredIsDropped ==
    /\ [](\A name \in DOMAIN EVAL_QUEUE : EVAL_QUEUE[name].expirationTtl = 3600)
    /\ [][\A id \in QueryIds : Dropped(id) => Dropped(id)']_vars

\* Query 1 expired between the listing of a run and its get: the run skipped
\* it and is done, and nothing was written.
C18_ExpiredUnderRun ==
    /\ Dropped(1)
    /\ run[1].pc = "done"
    /\ Len(run[1].log) >= 1
    /\ run[1].keys[1] = 1
    /\ run[1].log[1].status = "absent"

\* The query has its result, is out of the queue and no run holds it.
Settled(id) ==
    /\ RowsOf(id) = 1
    /\ \A event \in pendingPuts : event.id # id
    /\ id \notin DOMAIN EVAL_QUEUE
    /\ NoRunHolds(id)

\* What does hold of C19: once a query is classified and dequeued and no run
\* still holds its item, no step changes its stored result: not the ingestion
\* of its outcome, not a run started later.
C19_ResultKept ==
    [][\A id \in QueryIds :
          Settled(id) =>
              /\ Settled(id)'
              /\ RowsWith(voice_evaluations', id) = RowsWith(voice_evaluations, id)]_vars

\* Query 1 was stored with the default result; its outcome, which the outcome
\* tier would have labelled BAD, arrived afterwards, and both runs are done.
C19_DefaultKeptAfterOutcome ==
    /\ Settled(1)
    /\ \E row \in DOMAIN voice_evaluations :
         row.query_id = 1 /\ row.reason = "no_evaluation_criteria_met"
    /\ \E row \in DOMAIN voice_outcomes : row.query_id = 1 /\ row.latency_ms = 12000
    /\ run[1].pc = "done"
    /\ run[2].pc = "done"

\* C19: the stored result of a query that is classified and out of the queue
\* is changed by no later step, neither the ingestion of its outcome nor a
\* step of a classifier run.
C19_ClassifiedIsFinal ==
    [][\A id \in QueryIds :
          (RowsOf(id) = 1 /\ id \notin DOMAIN EVAL_QUEUE) =>
              RowsWith(voice_evaluations', id) = RowsWith(voice_evaluations, id)]_vars

\* C20 as stated: a result with evaluatedBy human is never replaced by the
\* classifier.
C20_HumanResultKept ==
    [][\A row \in DOMAIN voice_evaluations :
          row.evaluated_by = "human" => row \in DOMAIN voice_evaluations']_vars

\* The row of voice_stats_hourly' with the key of row, which has not lost any
\* of its counters.
KeptOrGrown(row) ==
    \E next \in DOMAIN voice_stats_hourly' :
        /\ next.store_id = row.store_id
        /\ next.hour_bucket = row.hour_bucket
        /\ next.total_queries >= row.total_queries
        /\ next.successful_queries >= row.successful_queries
        /\ next.failed_queries >= row.failed_queries
        /\ next.total_latency_ms >= row.total_latency_ms
        /\ next.total_cost_usd >= row.total_cost_usd

\* C21: in every step, whatever requests and side effects interleave, each
\* row of voice_stats_hourly is still there afterwards and none of its
\* counters other than unique_sessions is smaller than before.
C21_CountersNeverDecrease ==
    [][\A row \in DOMAIN voice_stats_hourly : KeptOrGrown(row)]_vars

\* Two query ingestions of one store and hour have both been counted and an
\* outcome was ingested as well.
C21_CountedTwice ==
    /\ tasks = {}
    /\ BagCardinality(voice_outcomes) = 1
    /\ \E row \in DOMAIN voice_stats_hourly : row.total_queries = 2

\* The rows of voice_stats_hourly for the store and hour of the query.
BucketOf(query) ==
    { row \in DOMAIN voice_stats_hourly :
        /\ row.store_id = query.store_id
        /\ row.hour_bucket = getHourBucket(query.created_at) }

\* C22: once every side effect has finished, the bucket of a query whose
\* outcome is stored has counted that outcome as a success or a failure and
\* has its latency in total_latency_ms.
C22_OutcomeInBucket ==
    tasks = {} =>
        \A outcome \in DOMAIN voice_outcomes :
            \A query \in { q \in DOMAIN voice_queries : q.id = outcome.query_id } :
                \A row \in BucketOf(query) :
                    /\ row.successful_queries + row.failed_queries >= 1
                    /\ row.total_latency_ms >= outcome.latency_ms

\* The distinct non-null session identifiers among the stored queries of the
\* store whose createdAt lies in the hour.
SessionsOf(store, bucket) ==
    { query.session_id :
        query \in { q \in DOMAIN voice_queries :
                      /\ Has(q, "session_id")
                      /\ q.store_id = store
                      /\ getHourBucket(q.created_at) = bucket } }

\* C23: with the requests sent one after another, whenever no hourly update
\* is in progress every stored query has its bucket's row, and each row's
\* unique_sessions is the number of distinct session identifiers of the
\* stored queries of that store and hour.
C23_UniqueSessionsIsDistinctCount ==
    tasks = {} =>
        /\ \A query \in DOMAIN voice_queries : BucketOf(query) # {}
        /\ \A row \in DOMAIN voice_stats_hourly :
              row.unique_sessions =
                  Cardinality(SessionsOf(row.store_id, row.hour_bucket))

\* Three queries of one store and hour: sessions a, a again and, last, one
\* without a sessionId; the count is 1.
C23_RepeatedAndMissingSession ==
    /\ tasks = {}
    /\ \E row \in DOMAIN voice_stats_hourly :
         /\ row.total_queries = 3
         /\ row.unique_sessions = 1
         /\ \E last \in DOMAIN voice_queries :
              /\ last.id = 3
              /\ ~Has(last, "session_id")
              /\ last.store_id = row.store_id

\* Every put and every update has settled.
Quiet == tasks = {} /\ pendingPuts = {}

\* Two hourly updates of one store and hour are in progress at once.
ConcurrentUpdates ==
    \E first \in tasks, second \in tasks :
        /\ first # second
        /\ first.kind = "hourly"
        /\ second.kind = "hourly"
        /\ first.event.storeId = second.event.storeId
        /\ getHourBucket(first.event.createdAt) = getHourBucket(second.event.createdAt)

UnderCounted(row) ==
    row.unique_sessions < Cardinality(SessionsOf(row.store_id, row.hour_bucket))

OverCounted(row) ==
    row.unique_sessions > Cardinality(SessionsOf(row.store_id, row.hour_bucket))

CallsIn(bucket, model) ==
    { call \in DOMAIN llm_calls :
        /\ call.model_name = model
        /\ bucket * 1000 <= call.timestamp
        /\ call.timestamp < (bucket + 3600) * 1000 }

\* C25: with llm_call events applied one after another, whenever no update is
\* in progress each (hour, model) with N >= 1 events has exactly one row of
\* llm_usage_hourly, holding N calls, the sum of prompt and completion
\* tokens, the sums of cost and latency and the number of events with an
\* error message; an (hour, model) without events has no row.
C25_UsageIsSum ==
    tasks = {} =>
        \A bucket \in HourlyBuckets, model \in {m.modelName : m \in UsageModels} :
            LET calls == CallsIn(bucket, model)
                rows == { row \in DOMAIN llm_usage_hourly :
                            row.hour_bucket = bucket /\ row.model_name = model }
            IN  /\ calls = {} => rows = {}
                /\ calls # {} =>
                      /\ Cardinality(rows) = 1
                      /\ \A row \in rows :
                           /\ llm_usage_hourly[row] = 1
                           /\ row.total_calls = Cardinality(calls)
                           /\ row.total_tokens = SumOf(calls, "tokens_prompt")
                                                   + SumOf(calls, "tokens_completion")
                           /\ row.total_cost_usd = SumOf(calls, "cost_usd")
                           /\ row.total_latency_ms = SumOf(calls, "latency_ms")
                           /\ row.error_count =
                                Cardinality({ c \in calls : Has(c, "error_message") })

\* Three calls of gemini in one hour, through two providers, one of them
\* failed: one row with 3 calls and 1 error.
C25_ThreeCallsOneError ==
    /\ tasks = {}
    /\ {call.provider : call \in CallsIn(3600, "gemini")} = {"google", "proxy"}
    /\ \E row \in DOMAIN llm_usage_hourly :
         /\ row.model_name = "gemini"
         /\ row.hour_bucket = 3600
         /\ row.total_calls = 3
         /\ row.error_count = 1
         /\ row.total_tokens = 27

\* The llm_call events the step has stored.
CallsStored == DOMAIN llm_calls' \ DOMAIN llm_calls

\* The insights updates the step has ended.
InsightsEnded == { task \in tasks \ tasks' : task.kind = "insights" /\ task.pc = "write" }

InsightsOf(table, customer) == { row \in DOMAIN table : row.customer_id = customer }

\* C26: storing an llm_call event without a customerId starts no update of
\* customer_insights and leaves the table as it is, and the table changes
\* only when the update of an event with a customerId ends, for that
\* customer alone; the update of an event whose customerId has no row yet
\* ends with that customer's row holding total_interactions 1.
C26_CustomerIdGatesInsights ==
    [][/\ \A call \in CallsStored :
             ~Has(call, "customer_id") =>
                 /\ customer_insights' = customer_insights
                 /\ \A task \in tasks' \ tasks : task.kind = "usage"
       /\ \A task \in tasks' : task.kind = "insights" => Has(task.event, "customerId")
       /\ customer_insights' # customer_insights =>
             \E task \in InsightsEnded :
                 \A row \in DOMAIN customer_insights :
                     row.customer_id # task.event.customerId =>
                         /\ row \in DOMAIN customer_insights'
                         /\ customer_insights'[row] = customer_insights[row]
       /\ \A task \in InsightsEnded :
             InsightsOf(customer_insights, task.event.customerId) = {} =>
                 /\ InsightsOf(customer_insights', task.event.customerId) # {}
                 /\ \A row \in InsightsOf(customer_insights', task.event.customerId) :
                       /\ row.total_interactions = 1
                       /\ customer_insights'[row] = 1]_vars

\* Customer c1 was seen once and an event without customerId was stored as
\* well: the table holds the row of c1 with one interaction and nothing else.
C26_OneCustomerOneAnonymous ==
    /\ tasks = {}
    /\ BagCardinality(llm_calls) = 2
    /\ \E call \in DOMAIN llm_calls : ~Has(call, "customer_id")
    /\ DOMAIN customer_insights = InsightsOf(customer_insights, "c1")
    /\ \E row \in DOMAIN customer_insights : row.total_interactions = 1

\* C27: a step that stores an outcome leaves its query in the work queue: an
\* entry under the query's id exists, or its put is under way.
C27_OutcomeQueuesQuery ==
    [][\A outcome \in DOMAIN voice_outcomes' \ DOMAIN voice_outcomes :
          \/ outcome.query_id \in DOMAIN EVAL_QUEUE'
          \/ \E event \in pendingPuts' : event.id = outcome.query_id]_vars

\* C28: a request in the documented format, event_type "voice_query" with
\* query_id, store_id and query_text, is answered 200 and its query is in
\* voice_queries.
C28_DocumentedQueryStored ==
    \A resp \in responses :
        (/\ resp.request # null
         /\ Has(resp.request, "event_type")
         /\ resp.request.event_type = "voice_query") =>
            /\ resp.status = 200
            /\ \E row \in DOMAIN voice_queries :
                  row.query_text = resp.request.query_text

\* The keys a step of a classifier run has removed from the queue (an expiry
\* leaves every run as it is).
DeletedByRun ==
    IF run' # run THEN DOMAIN EVAL_QUEUE \ DOMAIN EVAL_QUEUE' ELSE {}

\* C29: a key a classifier run deletes has its row in voice_evaluations when
\* the delete is issued, and the delete leaves the row alone; so every key a
\* run has written and deleted ("evaluated" in its log) has a stored result.
C29_WrittenBeforeDeleted ==
    /\ [](\A r \in Runs : \A i \in 1..Len(run[r].log) :
             run[r].log[i].status = "evaluated" => RowsOf(run[r].keys[i]) = 1)
    /\ [][\A key \in DeletedByRun :
             /\ RowsOf(key) = 1
             /\ RowsWith(voice_evaluations', key) = RowsWith(voice_evaluations, key)]_vars

\* One run has ended: an item whose write was rejected is still queued and
\* has no result, another item was written and deleted.
C29_FailedKeptEvaluatedGone ==
    /\ run[1].pc = "done"
    /\ \E i \in 1..Len(run[1].log), j \in 1..Len(run[1].log) :
         /\ run[1].log[i].status = "failed"
         /\ run[1].keys[i] \in DOMAIN EVAL_QUEUE
         /\ RowsOf(run[1].keys[i]) = 0
         /\ run[1].log[j].status = "evaluated"
         /\ run[1].keys[j] \notin DOMAIN EVAL_QUEUE

\* The run is at the get of a key whose entry is gone.
AtAbsentKey(r) == run[r].pc = "get" /\ Key(r) \notin DOMAIN EVAL_QUEUE

\* C30: the step of a run at a listed key whose entry is gone changes neither
\* voice_evaluations nor the queue and takes the run straight to its next
\* key (or to its end) with nothing read, no model answer and no verdict; a
\* key logged as absent has no model answer recorded.
C30_AbsentKeyIsNoOp ==
    /\ [](\A r \in Runs : \A i \in 1..Len(run[r].log) :
             run[r].log[i].status = "absent" => run[r].log[i].response = null)
    /\ [][\A r \in Runs :
             (AtAbsentKey(r) /\ run'[r] # run[r]) =>
                 /\ voice_evaluations' = voice_evaluations
                 /\ EVAL_QUEUE' = EVAL_QUEUE
                 /\ run'[r].log = Append(run[r].log, [status |-> "absent", response |-> null])
                 /\ run'[r].idx = run[r].idx + 1
                 /\ run'[r].pc \in {"get", "done"}
                 /\ run'[r].queryData = null
                 /\ run'[r].evaluation = null]_vars

\* Both runs listed key 1; run 1 wrote and deleted it, run 2 then found no
\* payload and the stored result is still the one of run 1.
C30_SecondRunSkipped ==
    /\ Len(run[1].log) >= 1
    /\ Len(run[2].log) >= 1
    /\ run[1].keys[1] = 1
    /\ run[2].keys[1] = 1
    /\ run[1].log[1].status = "evaluated"
    /\ run[2].log[1].status = "absent"
    /\ RowsOf(1) = 1

\* The run is inside evaluateWithLLM for the item it holds, or has left it with
\* an answer of the quality model.
InModelTier(r) ==
    \/ run[r].pc \in {"llm_context", "llm_fetch"}
    \/ run[r].response # null

\* C31: the quality model is called only when a credential is configured and
\* neither the heuristic tier nor the outcome tier matched the item; the call
\* is entered once per iteration, from the outcome tier only, and whatever the
\* call gives (a failure or a timeout included) the run goes on to write the
\* verdict of that same item: no second call in the same run.
C31_ModelCalledOnceWhenDue ==
    /\ [](\A r \in Runs :
            InModelTier(r) =>
                /\ C10_Credential
                /\ Holds(r)
                /\ C4_Matches(run[r].queryData) = {}
                /\ C10_NoOutcomeMatch(r)
                /\ run[r].response # null => run[r].pc \in {"store", "delete"})
    /\ [][\A r \in Runs :
            /\ (run[r].pc # "llm_context" /\ run'[r].pc = "llm_context") =>
                  (run[r].pc = "outcome" /\ run'[r].idx = run[r].idx)
            /\ (run[r].pc # "llm_fetch" /\ run'[r].pc = "llm_fetch") =>
                  (run[r].pc = "llm_context" /\ run'[r].idx = run[r].idx)
            /\ (run[r].pc = "llm_fetch" /\ run'[r] # run[r]) =>
                  (/\ run'[r].pc = "store"
                   /\ run'[r].idx = run[r].idx
                   /\ run'[r].response # null)
            /\ (run[r].response # null /\ run'[r].response # run[r].response) =>
                  (run'[r].response = null /\ run'[r].idx = run[r].idx + 1)
            /\ (run'[r].idx # run[r].idx) =>
                  (run'[r].idx = run[r].idx + 1 \/ run[r].pc \in {"done", "failed"})]_vars

\* With a credential, a run of two keys is done: the call for the first item
\* timed out and was not repeated, the second item matched a heuristic and the
\* model was not called for it.
C31_TimedOutOnceThenHeuristic ==
    /\ C10_Credential
    /\ run[1].pc = "done"
    /\ Len(run[1].log) = 2
    /\ run[1].log[1].response = [fetch |-> "aborted"]
    /\ run[1].log[2].response = null
    /\ run[1].log[2].status = "evaluated"

\* The batch size of the configurations of BatchEnvs: the configured number, 50
\* when EVAL_BATCH_SIZE is absent or empty.
C32_BatchSize ==
    IF Has(env, "EVAL_BATCH_SIZE") /\ env.EVAL_BATCH_SIZE = <<"1">> THEN 1
    ELSE IF Has(env, "EVAL_BATCH_SIZE") /\ env.EVAL_BATCH_SIZE = <<"2">> THEN 2
    ELSE 50

InProgress(r) == run[r].pc \notin {"idle", "done", "failed"}

\* C32: a run lists at most batchSize keys (50 when not configured), all
\* different, takes them one after the other, each once, and ends after the
\* last one, whatever fails on the way (store operations, quality-model calls).
C32_BoundedRun ==
    /\ [](\A r \in Runs :
            /\ Len(run[r].keys) <= C32_BatchSize
            /\ Len(run[r].keys) <= run[r].initialCount
            /\ \A i, j \in DOMAIN run[r].keys : run[r].keys[i] = run[r].keys[j] => i = j
            /\ run[r].idx <= Len(run[r].keys) + 1
            /\ Len(run[r].log) = run[r].idx - 1
            /\ InProgress(r) => run[r].idx <= Len(run[r].keys))
    /\ [][\A r \in Runs :
            InProgress(r) =>
                /\ run'[r].keys = run[r].keys
                /\ run'[r].idx \in {run[r].idx, run[r].idx + 1}]_vars
    /\ \A r \in Runs : InProgress(r) ~> run[r].pc = "done"

\* Two items were queued and the batch size is 1: the run listed one key, its
\* iteration failed, and the run is done with both items still queued.
C32_OneOfTwoExaminedAndFailed ==
    /\ C32_BatchSize = 1
    /\ run[1].pc = "done"
    /\ run[1].initialCount = 2
    /\ Len(run[1].keys) = 1
    /\ run[1].log[1].status = "failed"
    /\ Cardinality(DOMAIN EVAL_QUEUE) = 2

\* The row as the UPDATE of updateCustomerInsights may leave it: the fields it
\* sets apart, nothing differs from the row before.
SameButActivity(before, after) ==
    /\ DOMAIN after = DOMAIN before
    /\ \A f \in DOMAIN before \ {"total_interactions", "total_cost_usd",
                                 "avg_latency_ms", "last_active"} :
          after[f] = before[f]

\* C33: the update of a customer who has a row changes, in that row, only
\* the interaction count, the total cost, the average latency and the activity
\* timestamp: satisfaction_score and preferred_topics stay as they were, and
\* every other row stays as it is; the row created for a new customer has
\* satisfaction_score 0.5 and no preferred topics.
C33_UpdateKeepsSatisfaction ==
    [][\A task \in InsightsEnded :
          LET customer == task.event.customerId
              before == InsightsOf(customer_insights, customer)
              after  == InsightsOf(customer_insights', customer)
          IN  /\ Cardinality(after) = 1
              /\ \A row \in DOMAIN customer_insights :
                    row.customer_id # customer =>
                        /\ row \in DOMAIN customer_insights'
                        /\ customer_insights'[row] = customer_insights[row]
              /\ \A old \in before : \A new \in after :
                    /\ SameButActivity(old, new)
                    /\ new.satisfaction_score = old.satisfaction_score
                    /\ new.total_interactions = old.total_interactions + 1
                    /\ new.total_cost_usd = old.total_cost_usd + task.event.costUsd
                    /\ new.last_active = task.event.timestamp
              /\ before = {} =>
                    \A new \in after :
                        /\ new.satisfaction_score = 50
                        /\ ~Has(new, "preferred_topics")
                        /\ new.total_interactions = 1]_vars

\* Customer c1 had a row with satisfaction 0.8 and preferred topics and was
\* seen once more; customer c2 was new and seen once.
C33_ScoredUpdatedAndFresh ==
    /\ tasks = {}
    /\ \E row \in InsightsOf(customer_insights, "c1") :
         /\ row.total_interactions = 3
         /\ row.satisfaction_score = 80
         /\ Has(row, "preferred_topics")
         /\ row.last_active = 3600000
    /\ \E row \in InsightsOf(customer_insights, "c2") :
         /\ row.total_interactions = 1
         /\ row.satisfaction_score = 50

C34_Persisted(id) == \E query \in DOMAIN voice_queries : query.id = id

\* C34: every key of the work queue is the id of a stored query, the payload
\* under the key carries that id, and every row of voice_evaluations refers
\* to a stored query; so does every result a run is about to write.
C34_QueueAndResultsReferToQueries ==
    /\ \A name \in DOMAIN EVAL_QUEUE :
          /\ C34_Persisted(name)
          /\ EVAL_QUEUE[name].value.id = name
    /\ \A event \in pendingPuts : C34_Persisted(event.id)
    /\ \A row \in DOMAIN voice_evaluations : C34_Persisted(row.query_id)
    /\ \A r \in Runs :
          run[r].evaluation # null => C34_Persisted(run[r].evaluation.queryId)

\* Query 1 is classified and out of the queue, query 2 is queued, and both
\* are in voice_queries.
C34_OneClassifiedOneQueued ==
    /\ RowsOf(1) = 1
    /\ 1 \notin DOMAIN EVAL_QUEUE
    /\ 2 \in DOMAIN EVAL_QUEUE
    /\ {query.id : query \in DOMAIN voice_queries} = {1, 2}

\* The quality model answered well-formed JSON whose label is missing or is
\* not one of GOOD, REVIEW, BAD.
C35_InvalidLabel(resp) ==
    /\ resp # null
    /\ resp.fetch = "response"
    /\ resp.ok
    /\ resp.body = "judgment"
    /\ resp.evaluation # null
    /\ (Has(resp.evaluation, "label") => resp.evaluation.label \notin {"GOOD", "REVIEW", "BAD"})

\* C35: every row of voice_evaluations has a label of GOOD, REVIEW, BAD and
\* evaluated_by 'auto'; and an item for which the model answered well-formed
\* JSON with a missing or invalid label ends its iteration, when no store
\* operation fails, stored as REVIEW / llm_evaluation_failed and out of the queue.
C35_InvalidLabelFallsBack ==
    /\ \A row \in DOMAIN voice_evaluations :
          /\ Has(row, "label")
          /\ row.label \in {"GOOD", "REVIEW", "BAD"}
          /\ row.evaluated_by = "auto"
    /\ \A r \in Runs : \A i \in DOMAIN run[r].log :
          (C35_InvalidLabel(run[r].log[i].response) /\ faultsInjected = 0) =>
              /\ run[r].log[i].status = "evaluated"
              /\ run[r].keys[i] \notin DOMAIN EVAL_QUEUE
              /\ \E row \in DOMAIN voice_evaluations :
                    /\ row.query_id = run[r].keys[i]
                    /\ row.label = "REVIEW"
                    /\ row.reason = "llm_evaluation_failed"

\* The model answered with the label MAYBE, no store operation failed: the
\* iteration ended in the catch, nothing is stored for the item and it is
\* still in the queue when the run is done.
C35_InvalidLabelLeftQueued ==
    /\ faultsInjected = 0
    /\ run[1].pc = "done"
    /\ Len(run[1].log) >= 1
    /\ C35_InvalidLabel(run[1].log[1].response)
    /\ run[1].log[1].status = "failed"
    /\ run[1].keys[1] \in DOMAIN EVAL_QUEUE
    /\ RowsOf(run[1].keys[1]) = 0

\* The stored queries of the store and hour of a row of voice_stats_hourly.
C36_QueriesOf(row) ==
    { query \in DOMAIN voice_queries :
        /\ query.store_id = row.store_id
        /\ getHourBucket(query.created_at) = row.hour_bucket }

NoHourlyUpdatePending == \A task \in tasks : task.kind # "hourly"

\* C36: in every interleaving of concurrent query ingestions total_queries of
\* a row is never above the number of stored queries of its store and hour,
\* and once every hourly update has finished (no store operation having
\* failed) every stored query has its row and total_queries equals that number.
C36_NoUpdateLost ==
    /\ \A row \in DOMAIN voice_stats_hourly :
          row.total_queries <= Cardinality(C36_QueriesOf(row))
    /\ (NoHourlyUpdatePending /\ faultsInjected = 0) =>
          /\ \A query \in DOMAIN voice_queries : BucketOf(query) # {}
          /\ \A row \in DOMAIN voice_stats_hourly :
                row.total_queries = Cardinality(C36_QueriesOf(row))

\* Two queries of one store and hour are stored, both updates have finished
\* and no store operation failed: the row counts one query.
C36_TwoStoredOneCounted ==
    /\ NoHourlyUpdatePending
    /\ faultsInjected = 0
    /\ \E row \in DOMAIN voice_stats_hourly :
         /\ Cardinality(C36_QueriesOf(row)) = 2
         /\ row.total_queries = 1

\* The part of C36 that holds: no row counts more than the stored queries of
\* its store and hour.
C36_NeverAboveStored ==
    \A row \in DOMAIN voice_stats_hourly :
        row.total_queries <= Cardinality(C36_QueriesOf(row))

\* The rows of llm_usage_hourly of an hour and a model, whatever the provider.
C37_UsageRows(bucket, model) ==
    { row \in DOMAIN llm_usage_hourly : row.hour_bucket = bucket /\ row.model_name = model }

\* C37: for every hour and model the total_calls of the rows of
\* llm_usage_hourly, summed over the providers, never exceed the number of
\* stored llm_call events of that hour and model, in every interleaving of the
\* detached updates.
C37_CallsNeverAboveStored ==
    \A bucket \in HourlyBuckets, model \in {"gemini"} :
        SumOf(C37_UsageRows(bucket, model), "total_calls")
            <= Cardinality(CallsIn(bucket, model))

\* Three calls of one hour and model are stored and their updates are over:
\* the rows of the two providers hold 2 calls each.
C37_ThreeStoredFourCounted ==
    /\ tasks = {}
    /\ Cardinality(CallsIn(3600, "gemini")) = 3
    /\ {row.provider : row \in C37_UsageRows(3600, "gemini")} = {"google", "proxy"}
    /\ \A row \in C37_UsageRows(3600, "gemini") : row.total_calls = 2

\* The row holds the count and the mean latency of this collection of calls.
C38_SummaryOf(row, calls) ==
    /\ calls # {}
    /\ row.total_interactions = Cardinality(calls)
    /\ row.avg_latency_ms.num * Cardinality(calls)
          = row.avg_latency_ms.den * SumOf(calls, "latency_ms")

\* C38: in every interleaving of the detached updates of concurrent llm_call
\* events of one customer, the customer has at most one row and the row is the
\* summary of some of the customer's stored calls: total_interactions is their
\* number and avg_latency_ms their mean latency.
C38_RowSummarisesSomeCalls ==
    \A customer \in InsightCustomers :
        /\ Cardinality(InsightsOf(customer_insights, customer)) <= 1
        /\ \A row \in InsightsOf(customer_insights, customer) :
              /\ customer_insights[row] = 1
              /\ \E calls \in SUBSET CallsOf(customer) : C38_SummaryOf(row, calls)

\* Three calls of customer c1 are stored and every update is over; two updates
\* read the same row and the later write replaced the earlier: the row counts
\* 2 calls with a mean of 200 ms.
C38_TwoOfThreeSummarised ==
    /\ tasks = {}
    /\ Cardinality(CallsOf("c1")) = 3
    /\ \E row \in InsightsOf(customer_insights, "c1") :
         /\ row.total_interactions = 2
         /\ row.avg_latency_ms = [num |-> 200, den |-> 1]

\* The item is queued and a heuristic matches it: its iteration needs neither
\* the outcome tier nor the quality model, and its row is accepted.
C39_WouldSucceed(id) ==
    /\ id \in DOMAIN EVAL_QUEUE
    /\ C4_Matches(EVAL_QUEUE[id].value) # {}

\* C39: no head-of-line blocking: with runs that keep being started and go on,
\* a queued item whose own processing would succeed is classified, also when
\* the items ahead of it in list order fail on every run and stay queued.
C39_NoHeadOfLineBlocking ==
    \A id \in QueryIds : C39_WouldSucceed(id) ~> (RowsOf(id) = 1)

\* Batch size 1: the run listed item 1 alone, the model's label for it was
\* rejected and it is still first in the queue; item 2, which a heuristic
\* matches, is queued behind it and was not listed.
C39_BlockedBehindFailed ==
    /\ C32_BatchSize = 1
    /\ faultsInjected = 0
    /\ run[1].pc = "done"
    /\ run[1].keys = <<1>>
    /\ run[1].log[1].status = "failed"
    /\ 1 \in DOMAIN EVAL_QUEUE
    /\ C39_WouldSucceed(2)
    /\ RowsOf(2) = 0

\* What does hold: when the batch size is above the number of queued items,
\* every queued item a heuristic matches is classified.
C39_ClassifiedWhenListed ==
    \A id \in QueryIds :
        (C39_WouldSucceed(id) /\ C32_BatchSize > MaxQueries) ~> (RowsOf(id) = 1)

\* The read of the outcome tier failed for the item the run holds: the item
\* went past the tier with no outcome although its outcome row is stored.
C40_OutcomeReadFailed(r) ==
    /\ Holds(r)
    /\ run[r].pc \in {"llm_context", "llm_fetch", "store", "delete"}
    /\ C4_Matches(run[r].queryData) = {}
    /\ run[r].outcome = null
    /\ \E row \in DOMAIN voice_outcomes : row.query_id = run[r].queryData.id

C40_StepWithoutFailure(r) == run'[r] # run[r] /\ faultsInjected' = faultsInjected

\* C40: a failed read of voice_outcomes inside the outcome tier counts as no
\* outcome match: the iteration goes on with the same item to the model tier
\* (with a credential) or to the default verdict (without), never to the
\* catch of the loop and never with an outcome verdict; unless something else
\* fails, the verdict is written, the key is deleted and the iteration ends
\* evaluated.
C40_OutcomeReadFailureIsNoMatch ==
    /\ [][\A r \in Runs :
            (run[r].pc = "outcome" /\ faultsInjected' # faultsInjected) =>
                /\ run'[r].idx = run[r].idx
                /\ run'[r].queryData = run[r].queryData
                /\ run'[r].outcome = null
                /\ run'[r].log = run[r].log
                /\ C10_Credential => run'[r].pc = "llm_context"
                /\ ~C10_Credential =>
                      /\ run'[r].pc = "store"
                      /\ run'[r].evaluation.reason = "no_evaluation_criteria_met"
                      /\ run'[r].evaluation.label = "REVIEW"]_vars
    /\ [](\A r \in Runs :
            (C40_OutcomeReadFailed(r) /\ run[r].pc \in {"store", "delete"}) =>
                (Has(run[r].evaluation, "reason")
                    => run[r].evaluation.reason \notin OutcomeReasons))
    /\ [][\A r \in Runs :
            (C40_OutcomeReadFailed(r) /\ C40_StepWithoutFailure(r)) =>
                /\ run[r].pc = "llm_context" => run'[r].pc = "llm_fetch"
                /\ run[r].pc = "llm_fetch" => run'[r].pc = "store"
                /\ (run[r].pc = "store" /\ ~C35_InvalidLabel(run[r].response)) =>
                      /\ run'[r].pc = "delete"
                      /\ \E row \in DOMAIN voice_evaluations' :
                            /\ row.query_id = run[r].queryData.id
                            /\ row.reason = run[r].evaluation.reason
                            /\ row.label = run[r].evaluation.label
                /\ run[r].pc = "delete" =>
                      /\ run[r].queryData.id \notin DOMAIN EVAL_QUEUE'
                      /\ RowsWith(voice_evaluations', run[r].queryData.id) # EmptyBag
                      /\ run'[r].log[Len(run'[r].log)].status = "evaluated"]_vars

\* No credential; item 1 has an outcome row the outcome tier would label BAD,
\* the read of it failed: the item is stored with the default verdict and is
\* out of the queue.
C40_DefaultDespiteOutcome ==
    /\ ~C10_Credential
    /\ faultsInjected = 1
    /\ Len(run[1].log) >= 1
    /\ run[1].keys[1] = 1
    /\ run[1].log[1].status = "evaluated"
    /\ 1 \notin DOMAIN EVAL_QUEUE
    /\ \E row \in DOMAIN voice_outcomes : row.query_id = 1 /\ row.latency_ms > 10000
    /\ \E row \in DOMAIN voice_evaluations :
         row.query_id = 1 /\ row.reason = "no_evaluation_criteria_met"

====
